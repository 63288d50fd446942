----------------------------- MODULE MCExports ------------------------------
(***************************************************************************)
(* The rows of pages, and the files made of them, for TLC.                  *)
(***************************************************************************)
EXTENDS ExportContents

\* A line of text is one word; a line of code has words for data_quality.json alone.
TextLine(word) == [text |-> word, kind |-> "text", plain |-> <<word>>, bare |-> <<word>>]
Menu == [text |-> "home", kind |-> "nav", plain |-> <<"home">>, bare |-> <<"home">>]
Blank == [text |-> "", kind |-> "blank", plain |-> <<>>, bare |-> <<>>]
CodeLine == [text |-> "code", kind |-> "text", plain |-> <<>>, bare |-> <<"code">>]

RawPage(lines, described, code, images, links, pdfs, table) ==
    [lines |-> lines, title |-> TRUE, description |-> described, code |-> code,
     images |-> images, links |-> links, pdfs |-> pdfs, table |-> table]
Cells(th, td) == [th |-> th, td |-> td]

\* A good page, a short one that repeats itself under an error code, one without main
\* content, one without markdown.
SomeRawPages ==
    {RawPage(<<Menu, TextLine("a"), Blank, CodeLine, Blank, TextLine("b")>>, TRUE, 200,
             <<"x", "y">>, <<"l">>, <<>>, <<Cells(2, 0), Cells(0, 2)>>),
     RawPage(<<TextLine("a"), TextLine("a"), TextLine("a"), TextLine("b")>>, FALSE, 404,
             <<"x">>, <<>>, <<"p">>, <<Cells(0, 2), Cells(0, 2)>>),
     RawPage(<<Menu, Menu, CodeLine>>, FALSE, 200, <<>>, <<"l", "l">>, <<>>, <<>>),
     RawPage(<<>>, FALSE, 200, <<>>, <<>>, <<"p">>, <<>>)}

SomeCrawlErrors == {{"robots"}, {"api key", "403"}, {"paywall", "login required"}, {"timeout"}}

RecordsSpec == RecordsInit /\ [][RecordsNext]_recordVars
=============================================================================
