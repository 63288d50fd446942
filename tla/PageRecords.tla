---------------------------- MODULE PageRecords -----------------------------
(***************************************************************************)
(* What is in the row of a page and what the exports make of it:            *)
(* crawl-page-processor.service.ts turns an answer of the provider into     *)
(* columns, crawl-page.repository.ts writes those columns that are given,   *)
(* and the writers of pages.json, pages.csv, pages.xlsx, images.csv,        *)
(* summary.json, errors.json and data_quality.json each read or compute the *)
(* same numbers anew.  A text is a sequence of lines, a plain text a        *)
(* sequence of lines of words; the hash of a text is the text itself.       *)
(***************************************************************************)
EXTENDS Integers, FiniteSets, Sequences, SequencesExt, FiniteSetsExt

CONSTANTS
    Addresses,    \* addresses of pages
    RawPages,     \* what the provider may return for an address
    CrawlErrors,  \* what it may say of one it cannot fetch: the words it uses
    MinWords,     \* DATA_QUALITY_MIN_WORD_COUNT, 50
    NoiseLines,   \* the length from which a text may be mostly navigation, 10
    PreviewLength,\* length of the preview in pages.xlsx, 500
    AssetLimit    \* assets that findByJobId returns when nothing is said, 50

\* plain are the words that stripMarkdown leaves, bare those that writeDataQuality
\* leaves: it keeps code and addresses.  The same text is the same line.
LineType == [text : STRING, kind : {"text", "blank", "nav", "sidebar", "footer"},
             plain : Seq(STRING), bare : Seq(STRING)]
RawPageType == [lines : Seq(LineType), title : BOOLEAN, description : BOOLEAN,
                code : Nat, images : Seq(STRING), links : Seq(STRING), pdfs : Seq(STRING),
                table : Seq([th : Nat, td : Nat])]

ASSUME RecordConstants ==
    /\ RawPages \subseteq RawPageType /\ CrawlErrors \subseteq SUBSET STRING
    /\ {MinWords, NoiseLines, PreviewLength, AssetLimit} \subseteq Nat

\* No lines: the provider gives no markdown, and tables are found in it.
ASSUME TablesInText == \A raw \in RawPages : raw.lines = <<>> => raw.table = <<>>

\* An error that the provider reports has a text: inferStatus takes a page without
\* one for a success.
ASSUME ErrorsHaveText == {} \notin CrawlErrors

VARIABLES
    attempt,    \* of the job: each saves an address once
    handled,    \* the addresses this attempt has saved
    pageRow,    \* crawl_pages of the job, as a function of the addresses saved
    order,      \* those addresses as findByIdWithPages returns them
    asset,      \* its assets in crawl_assets, oldest first
    latest      \* history: the columns the last save of an address was given

recordVars == <<attempt, handled, pageRow, order, asset, latest>>

-----------------------------------------------------------------------------
(* data-contract.helper.ts *)

Trimmed(s, IsEmpty(_)) ==
    LET full == {i \in DOMAIN s : ~IsEmpty(s[i])}
    IN  IF full = {} THEN <<>> ELSE SubSeq(s, Min(full), Max(full))

IsBlank(line) == line.kind = "blank"
IsWordless(words) == words = <<>>

\* Without navigation, headings of side bars, footers, and lines that come back
\* three times.
ExtractMainContent(lines) ==
    LET Times(l) == Cardinality({i \in DOMAIN lines : lines[i].text = l.text})
        Keep(kept, l) == IF IsBlank(l) \/ (l.kind = "text" /\ Times(l) < 3)
                         THEN Append(kept, l) ELSE kept
    IN  Trimmed(FoldLeft(Keep, <<>>, lines), IsBlank)

\* One empty line in place of several.
StripMarkdown(main) ==
    LET Line(s, l) == IF l.plain = <<>> /\ s # <<>> /\ Last(s) = <<>>
                      THEN s ELSE Append(s, l.plain)
    IN  Trimmed(FoldLeft(Line, <<>>, main), IsWordless)

CountWords(text) == Len(FlattenSeq(text))

NoScore == -1

CalcDataQualityScore(success, main, words, title, description) ==
    LET Points(condition, points) == IF condition THEN points ELSE 0
    IN  IF ~success THEN NoScore
        ELSE Points(main # <<>>, 40) + Points(words >= MinWords, 30)
             + Points(title, 15) + Points(description, 15)

DetectWarnings(title, description, words, score, duplicate, noise) ==
    LET Warned(condition, warning) == IF condition THEN {warning} ELSE {}
    IN  UNION {Warned(~title, "MISSING_TITLE"),
               Warned(~description, "MISSING_DESCRIPTION"),
               Warned(0 < words /\ words < MinWords, "TOO_SHORT"),
               Warned(duplicate, "DUPLICATE_CONTENT"),
               Warned(noise, "NAV_NOISE"),
               Warned(score # NoScore /\ score < 30, "LOW_QUALITY_SCORE")}

\* More than three tenths of a longer text are left out of the main content.
IsNavNoise(lines, main) ==
    Len(lines) > NoiseLines /\ 10 * (Len(lines) - Len(main)) > 3 * Len(lines)

-----------------------------------------------------------------------------
(* The status and the message of an error: the first rule that knows a word *)

FirstRule(rules, error, otherwise) ==
    LET known == {i \in DOMAIN rules : rules[i].words \cap error # {}}
    IN  IF known = {} THEN otherwise ELSE rules[Min(known)].says
Rule(words, says) == [words |-> words, says |-> says]

InferStatus(error, code) ==
    IF error = {} THEN IF code >= 400 THEN "FAILED" ELSE "SUCCESS"
    ELSE FirstRule(<<Rule({"robots", "robots.txt"}, "BLOCKED"),
                     Rule({"captcha"}, "CAPTCHA_DETECTED"),
                     Rule({"paywall"}, "PAYWALL_DETECTED"),
                     Rule({"login required"}, "REQUIRES_LOGIN"),
                     Rule({"timeout"}, "TIMEOUT"),
                     Rule({"api key", "forbidden key"}, "FAILED"),
                     Rule({"cloudflare", "access denied", "private ip", "rate limit",
                           "403", "forbidden", "ip block"}, "BLOCKED")>>, error, "FAILED")

MapCrawlError(error) ==
    FirstRule(<<Rule({"robots.txt"}, "robots"),
                Rule({"captcha"}, "captcha"),
                Rule({"login required"}, "login"),
                Rule({"paywall"}, "paywall"),
                Rule({"unauthorized", "api key", "credit", "402", "forbidden key"}, "auth"),
                Rule({"timeout"}, "timeout"),
                Rule({"cloudflare", "403", "forbidden", "access denied", "ip block"}, "denied"),
                Rule({"dns"}, "host"),
                Rule({"rate limit"}, "rate limit"),
                Rule({"private ip"}, "private ip")>>, error, "other")

-----------------------------------------------------------------------------
(* The columns of a page: what is undefined is not among them *)

NewRow == [status |-> "PENDING", error |-> "", title |-> FALSE, description |-> FALSE,
           lines |-> <<>>, words |-> 0, hash |-> <<>>, score |-> NoScore,
           warnings |-> {}, table |-> <<>>]

\* clean is the text whose words are counted.
GivenColumns(raw, main, clean) ==
    LET words == CountWords(clean)
        status == InferStatus({}, raw.code)
        score == CalcDataQualityScore(status = "SUCCESS", main, words, raw.title,
                                      raw.description)
        columns == [status |-> status, title |-> raw.title, description |-> raw.description,
                    lines |-> raw.lines, words |-> words, hash |-> clean, score |-> score,
                    warnings |-> DetectWarnings(raw.title, raw.description, words, score,
                                                FALSE, FALSE),
                    table |-> raw.table]
        missing == {c \in {"title", "description", "hash", "score"} :
                       columns[c] = NewRow[c]}
                   \cup IF raw.lines = <<>> THEN {"lines", "table"} ELSE {}
    IN  Restrict(columns, DOMAIN columns \ missing)

\* Seeded fault: the words of the whole text are counted.
NormalizeWhole(raw) ==
    GivenColumns(raw, ExtractMainContent(raw.lines), StripMarkdown(raw.lines))

\* A page the provider returns, with whatever status code, has no error.
Normalize(raw) ==
    LET main == ExtractMainContent(raw.lines)
    IN  GivenColumns(raw, main, StripMarkdown(main))

NormalizeFailedPage(error) ==
    [status |-> InferStatus(error, 0), error |-> MapCrawlError(error), words |-> 0,
     warnings |-> {}]

\* What is new in place of what is old.
Over(new, old) ==
    [x \in DOMAIN new \cup DOMAIN old |-> IF x \in DOMAIN new THEN new[x] ELSE old[x]]

Store(u, columns) ==
    LET old == IF u \in DOMAIN pageRow THEN pageRow[u] ELSE NewRow
    IN  /\ pageRow' = Over([v \in {u} |-> Over(columns, old)], pageRow)
        /\ latest' = Over([v \in {u} |-> columns], latest)

\* Seeded fault: a second row for an address that has one.
UpsertAgain(u, columns) ==
    Store(u, columns) /\ order' = Append(order, u)

\* The columns that are given replace those of the row; the others stay.
Upsert(u, columns) ==
    /\ Store(u, columns)
    /\ order' = IF u \in DOMAIN pageRow THEN order ELSE Append(order, u)

Statuses == {"SUCCESS", "FAILED", "BLOCKED", "CAPTCHA_DETECTED", "PAYWALL_DETECTED",
             "REQUIRES_LOGIN", "TIMEOUT"}
Messages == {"robots", "captcha", "login", "paywall", "auth", "timeout", "denied", "host",
             "rate limit", "private ip", "other"}
Warnings == {"MISSING_TITLE", "MISSING_DESCRIPTION", "TOO_SHORT", "DUPLICATE_CONTENT",
             "NAV_NOISE", "LOW_QUALITY_SCORE"}

\* No page that is saved is left pending, or skipped.
Columns == [status : Statuses, error : Messages \cup {""}, title : BOOLEAN, description : BOOLEAN,
            lines : Seq(LineType), words : Nat, hash : Seq(Seq(STRING)),
            score : Nat \cup {NoScore}, warnings : SUBSET Warnings,
            table : Seq([th : Nat, td : Nat])]

AssetKinds == {"IMAGE", "LINK", "PDF"}

RecordsTypeOK ==
    /\ attempt \in {1, 2} /\ handled \subseteq DOMAIN pageRow
    /\ DOMAIN pageRow = Range(order) /\ DOMAIN latest = Range(order)
    /\ IsInjective(order)
    /\ \A u \in DOMAIN pageRow : u \in Addresses /\ pageRow[u] \in Columns
    /\ asset \in Seq([page : DOMAIN pageRow, kind : AssetKinds, url : STRING])

RecordsInit ==
    /\ attempt = 1 /\ handled = {} /\ pageRow = <<>> /\ order = <<>> /\ asset = <<>>
    /\ latest = <<>>

SavePageAssets(u, raw) ==
    LET Batch(kind, urls) ==
            [i \in DOMAIN urls |-> [page |-> u, kind |-> kind, url |-> urls[i]]]
    IN  asset' = asset \o Batch("IMAGE", raw.images) \o Batch("LINK", raw.links)
                       \o Batch("PDF", raw.pdfs)

\* The row, then its assets, whether an earlier attempt has stored them or not.
SavePage(u, raw) ==
    /\ u \notin handled /\ handled' = handled \cup {u}
    /\ Upsert(u, Normalize(raw))
    /\ SavePageAssets(u, raw)
    /\ UNCHANGED attempt

SaveError(u, error) ==
    /\ u \notin handled /\ handled' = handled \cup {u}
    /\ Upsert(u, NormalizeFailedPage(error))
    /\ UNCHANGED <<attempt, asset>>

Retry ==
    /\ attempt = 1 /\ attempt' = 2 /\ handled' = {}
    /\ UNCHANGED <<pageRow, order, asset, latest>>

RecordsNext ==
    \/ \E u \in Addresses :
          \/ \E raw \in RawPages : SavePage(u, raw)
          \/ \E error \in CrawlErrors : SaveError(u, error)
    \/ Retry
=============================================================================
