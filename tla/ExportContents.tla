--------------------------- MODULE ExportContents ---------------------------
(***************************************************************************)
(* The files of an export as operators over the rows of PageRecords: each   *)
(* of the writers of src/src/modules/exports goes through the pages of the  *)
(* job for itself.  What a file says is compared, not how it is laid out.   *)
(***************************************************************************)
EXTENDS PageRecords

Pages == DOMAIN order
PageAt(i) == pageRow[order[i]]
Where(test(_)) == {i \in Pages : test(i)}

\* Those before i that have the text of i, were they to count.
SeenBefore(i, text(_), among) ==
    text(i) # <<>> /\ \E j \in among : j < i /\ text(j) = text(i)

-----------------------------------------------------------------------------
(* pages.json: the numbers are computed from the text again *)

MainContent(i) == ExtractMainContent(PageAt(i).lines)
CleanText(i) == StripMarkdown(MainContent(i))

TransformPageToRecord(i) ==
    LET p == PageAt(i)
        words == CountWords(CleanText(i))
        score == CalcDataQualityScore(p.status = "SUCCESS", MainContent(i), words,
                                      p.title, p.description)
    IN  [status |-> p.status, words |-> words, hash |-> CleanText(i), score |-> score,
         main |-> MainContent(i),
         warnings |-> DetectWarnings(p.title, p.description, words, score,
                          SeenBefore(i, CleanText, Pages),
                          IsNavNoise(p.lines, MainContent(i)))]

AssetsOf(u, kind) == {k \in DOMAIN asset : asset[k].page = u /\ asset[k].kind = kind}

\* Every link of a page, and its images, each address once.
TransformLinks(u) == AssetsOf(u, "LINK")
TransformImages(u) == {asset[k].url : k \in AssetsOf(u, "IMAGE")}

\* A header in the first row, and each row that has a cell.
ParsePageTables(table) ==
    LET HasCells(r) == r.td > 0
    IN  [headers |-> IF table = <<>> THEN 0 ELSE Head(table).th,
         rows |-> Len(SelectSeq(table, HasCells))]

-----------------------------------------------------------------------------
(* pages.csv and pages.xlsx: the columns as they are stored *)

ExportPages(i) ==
    LET p == PageAt(i)
    IN  [status |-> p.status, words |-> p.words, score |-> p.score, main |-> MainContent(i)]

\* pages.xlsx shows the beginning of the main text.
ExportPagesXlsx(i) ==
    LET p == PageAt(i)
        main == MainContent(i)
    IN  [status |-> p.status, words |-> p.words, score |-> p.score,
         preview |-> SubSeq(main, 1, Min({Len(main), PreviewLength}))]

\* What findByJobId returns when no limit is named: the oldest.
FoundAssets(kind) ==
    {k \in DOMAIN asset : k <= AssetLimit /\ asset[k].kind = kind}

\* links.csv has a line for each, images.csv one for a page and an address.
ExportLinks == FoundAssets("LINK")
ExportImages == {[page |-> asset[k].page, url |-> asset[k].url] : k \in FoundAssets("IMAGE")}

\* tables.xlsx: with no header cell in the table, its first row is the header.
ExtractAllHtmlTables(table) ==
    LET HasCells(r) == r.td > 0
        headed == \E k \in DOMAIN table : table[k].th > 0
    IN  [headers |-> IF headed THEN FoldLeft(LAMBDA n, r : n + r.th, 0, table)
                     ELSE IF table = <<>> THEN 0 ELSE Head(table).td,
         rows |-> IF headed THEN Len(SelectSeq(table, HasCells)) ELSE 0]

\* The line of a table in the summary sheet.
ExportTables(i) ==
    LET parsed == ExtractAllHtmlTables(PageAt(i).table)
    IN  [rows |-> parsed.rows, cols |-> parsed.headers]

-----------------------------------------------------------------------------
(* summary.json, errors.json and data_quality.json *)

Succeeded(i) == PageAt(i).status = "SUCCESS"

WriteSummary ==
    LET Failed(i) == PageAt(i).status \notin {"SUCCESS", "SKIPPED"}
    IN  [totalPages |-> Cardinality(Pages), successPages |-> Cardinality(Where(Succeeded)),
         failedPages |-> Cardinality(Where(Failed))]

WriteErrors == {order[i] : i \in {i \in Pages : PageAt(i).status \notin
                                                   {"SUCCESS", "PENDING", "SKIPPED"}}}

\* All white space is one space, and code and addresses are words.
ReportText(i) == FlattenSeq([k \in DOMAIN MainContent(i) |-> MainContent(i)[k].bare])

WriteDataQuality ==
    LET good == Where(Succeeded)
        duplicates == {i \in good : SeenBefore(i, ReportText, good)}
        noisy == {i \in good : IsNavNoise(PageAt(i).lines, MainContent(i))}
        short == {i \in good : Len(ReportText(i)) > 0 /\ Len(ReportText(i)) < MinWords}
    IN  [successPages |-> Cardinality(good), errorPages |-> Cardinality(WriteErrors),
         duplicateRemoved |-> Cardinality(duplicates),
         navNoisePages |-> Cardinality(noisy), tooShortPages |-> Cardinality(short),
         cleanPages |-> Max({0, Cardinality(good) - Cardinality(duplicates)
                                - Cardinality(noisy) - Cardinality(short)})]

-----------------------------------------------------------------------------
(* Properties *)

\* The last save of the page gave every column that its row has a value in.
IsFresh(i) ==
    \A c \in DOMAIN NewRow :
        PageAt(i)[c] # NewRow[c] => c \in DOMAIN latest[order[i]]

\* What pages.json computes is what the row has, and so what pages.csv and
\* pages.xlsx show; only duplicates and noise are known to pages.json alone.
RecordsAgree ==
    \A i \in Pages : IsFresh(i) =>
        LET json == TransformPageToRecord(i)
            csv == ExportPages(i)
            xlsx == ExportPagesXlsx(i)
        IN  /\ \A c \in DOMAIN csv : csv[c] = json[c]
            /\ \A c \in {"status", "words", "score"} : xlsx[c] = json[c]
            /\ IsPrefix(xlsx.preview, json.main)
            /\ json.hash = PageAt(i).hash
            /\ PageAt(i).lines # <<>> =>
                  PageAt(i).warnings = json.warnings \ {"DUPLICATE_CONTENT", "NAV_NOISE"}

\* Every page is a success or an error, in each of the three reports.
ReportsAgree ==
    LET summary == WriteSummary
        quality == WriteDataQuality
    IN  /\ summary.totalPages = summary.successPages + summary.failedPages
        /\ quality.successPages = summary.successPages
        /\ quality.errorPages = summary.failedPages

\* pages.json, links.csv and images.csv list the same links and images, up to the
\* assets the latter two find, however often an attempt has inserted them.
AssetsAgree ==
    Len(asset) <= AssetLimit =>
        /\ ExportLinks = UNION {TransformLinks(u) : u \in Range(order)}
        /\ ExportImages = UNION {{[page |-> u, url |-> x] : x \in TransformImages(u)} :
                                    u \in Range(order)}

\* pages.json and tables.xlsx count the same rows of a table that has a header.
TablesAgree ==
    \A i \in Pages :
        (\E k \in DOMAIN PageAt(i).table : PageAt(i).table[k].th > 0) =>
            ExportTables(i).rows = ParsePageTables(PageAt(i).table).rows

\* The five writers, which read or compute the same numbers each for itself, agree,
\* after one attempt or two.
WritersAgree ==
    RecordsAgree /\ ReportsAgree /\ AssetsAgree /\ TablesAgree

\* images.csv lists all images that were collected in the job.
ImagesAreComplete ==
    \A u \in Range(order) : \A x \in TransformImages(u) :
        [page |-> u, url |-> x] \in ExportImages

\* A row that a retry saves again is overwritten with what it found.
RowsAreFresh == \A i \in Pages : IsFresh(i)
=============================================================================
