------------------------------ MODULE FileUrl -------------------------------
(***************************************************************************)
(* compare_FileAndUrl, hangshu and delete_file of uart_protocol.c.         *)
(* compare_FileAndUrl looks for the line of a file that begins with Url    *)
(* (its last character aside).  It first lets hangshu count the newlines,  *)
(* then opens the file again and reads as many pieces with fgets(buf, 512) *)
(* as there were lines.  A piece is a line, or 511 bytes of one; what      *)
(* matters of it is how many characters it has in common with Url, the     *)
(* terminating zero included, and whether it ends in a newline.  Others    *)
(* may write or remove the file at any time, and any fopen may fail.       *)
(***************************************************************************)
EXTENDS Integers, Sequences, FiniteSets

CONSTANTS UrlLen,      \* strlen(Url)
          SizeMax,     \* SIZE_MAX
          MaxPieces,   \* bound: pieces of the file
          MaxWrites    \* bound: times the file is written

ASSUME FileUrlAssumption ==
    /\ UrlLen \in Nat /\ SizeMax \in Nat /\ UrlLen + 1 < SizeMax
    /\ MaxPieces \in Nat /\ MaxWrites \in Nat

Pieces == [common : 0..UrlLen + 1, newline : BOOLEAN]
Contents == UNION {[1..n -> Pieces] : n \in 0..MaxPieces}
File(s) == [there |-> TRUE, pieces |-> s]
NoFile == [there |-> FALSE, pieces |-> <<>>]

VARIABLES fuPc,        \* where the call is
          urlFile,     \* the file at the path
          fuWrites,    \* how often it has been written
          hangnum,     \* lines counted by hangshu
          fuI,         \* i: pieces read and compared
          fuOpen,      \* streams open
          fuResult,    \* what compare_FileAndUrl returned
          fuStream,    \* what the last fopen has opened: the pieces the stream has
                       \* returned and those still to come
          fuCounted    \* history: the stream hangshu counted

fileUrlVars == <<fuPc, urlFile, fuWrites, hangnum, fuI, fuOpen, fuResult, fuStream, fuCounted>>

InitFileUrl ==
    /\ fuPc = "idle" /\ urlFile = NoFile /\ fuWrites = 0
    /\ hangnum = 0 /\ fuI = 0 /\ fuOpen = 0 /\ fuResult = 0
    /\ fuStream = NoFile /\ fuCounted = NoFile

Running == fuPc \in {"idle", "count", "open", "read"}

\* Somebody else writes the file.
FileWritten(s) ==
    /\ Running /\ fuWrites < MaxWrites
    /\ urlFile' = File(s)
    /\ fuWrites' = fuWrites + 1
    /\ UNCHANGED <<fuPc, hangnum, fuI, fuOpen, fuResult, fuStream, fuCounted>>

\* Written in place it also changes under an open stream, which reads it in
\* blocks: from some piece on, what is still to come is another text.
StreamRewritten(k, s) ==
    /\ fuPc \in {"count", "read"} /\ fuWrites < MaxWrites
    /\ k \in fuI..Len(fuStream.pieces) /\ k + Len(s) <= MaxPieces
    /\ fuStream' = File(SubSeq(fuStream.pieces, 1, k) \o s)
    /\ fuWrites' = fuWrites + 1
    /\ UNCHANGED <<fuPc, urlFile, hangnum, fuI, fuOpen, fuResult, fuCounted>>

\* delete_file: rm, if the file is there.  An open stream keeps its file.
DeleteFile ==
    /\ Running /\ urlFile.there
    /\ urlFile' = NoFile
    /\ UNCHANGED <<fuPc, fuWrites, hangnum, fuI, fuOpen, fuResult, fuStream, fuCounted>>

Opened ==
    /\ urlFile.there
    /\ fuStream' = urlFile
    /\ fuOpen' = fuOpen + 1
\* fopen returns NULL: there is no file, it may not be opened in this mode (the
\* first is "r", the second "r+"), or there is no descriptor to be had.
NotOpened == fuStream' = NoFile /\ UNCHANGED fuOpen

\* hangshu: -1 if fopen fails, else the newlines.
CountLines ==
    /\ fuPc = "idle"
    /\ \/ Opened /\ fuPc' = "count" /\ UNCHANGED hangnum
       \/ NotOpened /\ fuPc' = "open" /\ hangnum' = -1
    /\ UNCHANGED <<urlFile, fuWrites, fuI, fuResult, fuCounted>>

Newlines(s) == Cardinality({k \in DOMAIN s : s[k].newline})

LinesCounted ==
    /\ fuPc = "count"
    /\ hangnum' = Newlines(fuStream.pieces)
    /\ fuCounted' = fuStream
    /\ fuOpen' = fuOpen - 1
    /\ fuPc' = "open"
    /\ UNCHANGED <<urlFile, fuWrites, fuI, fuResult, fuStream>>

\* A null argument: the function ends without a return statement.
NullArgument ==
    /\ fuPc = "idle"
    /\ fuPc' = "garbage"
    /\ UNCHANGED <<urlFile, fuWrites, hangnum, fuI, fuOpen, fuResult, fuStream, fuCounted>>

OpenFile ==
    /\ fuPc = "open"
    /\ \/ Opened /\ fuPc' = "read" /\ UNCHANGED fuResult
       \/ NotOpened /\ fuPc' = "returned" /\ fuResult' = -1
    /\ UNCHANGED <<urlFile, fuWrites, hangnum, fuI, fuCounted>>

\* strlen(Url) - 1 is unsigned.
CompareLen == IF UrlLen = 0 THEN SizeMax ELSE UrlLen - 1
\* strncmp(deline, Url, CompareLen) = 0: so many characters, or both strings to
\* their end.
Agrees(p) == p.common >= CompareLen \/ p.common = UrlLen + 1

\* Fault: the index is returned, not the number of the line.
AsIndex(i) == i
\* i++ before return i
LineNumber(i) == i + 1

\* Fault: the stream stays open when the line is found.
StillOpen(n) == n
\* fclose(dp) before every return
AfterFclose(n) == n - 1

More == fuI < hangnum /\ fuI < Len(fuStream.pieces)

ReadNext ==
    /\ fuPc = "read" /\ More /\ ~Agrees(fuStream.pieces[fuI + 1])
    /\ fuI' = fuI + 1
    /\ UNCHANGED <<fuPc, urlFile, fuWrites, hangnum, fuOpen, fuResult, fuStream, fuCounted>>

FoundLine ==
    /\ fuPc = "read" /\ More /\ Agrees(fuStream.pieces[fuI + 1])
    /\ fuPc' = "returned" /\ fuResult' = LineNumber(fuI)
    /\ fuOpen' = AfterFclose(fuOpen)
    /\ UNCHANGED <<urlFile, fuWrites, hangnum, fuI, fuStream, fuCounted>>

\* All lines compared, or fgets returned NULL.
NotFound ==
    /\ fuPc = "read" /\ ~More
    /\ fuPc' = "returned" /\ fuResult' = 0
    /\ fuOpen' = fuOpen - 1
    /\ UNCHANGED <<urlFile, fuWrites, hangnum, fuI, fuStream, fuCounted>>

NextFileUrl ==
    \/ \E s \in Contents : FileWritten(s)
    \/ \E k \in 0..MaxPieces, s \in Contents : StreamRewritten(k, s)
    \/ DeleteFile \/ CountLines \/ LinesCounted \/ NullArgument \/ OpenFile
    \/ ReadNext \/ FoundLine \/ NotFound
-----------------------------------------------------------------------------
ShortLines(s) == \A k \in DOMAIN s : s[k].newline \/ k = Len(s)
Begins(p) == (UrlLen > 0 /\ p.common + 1 >= UrlLen) \/ p.common = UrlLen + 1
Hits == {k \in DOMAIN fuStream.pieces :
            Begins(fuStream.pieces[k]) /\ fuStream.pieces[k].newline}

(***************************************************************************)
(* If both passes saw the same text, with no line over 511 bytes, or both  *)
(* failed to open it, the answer is the number of the first line that      *)
(* begins with Url less its last character, 0 if there is none, and -1 for *)
(* no stream.  A last line without a newline is not looked at; with the    *)
(* empty Url only a line that begins with a zero byte agrees.              *)
(***************************************************************************)
FirstLineFound ==
    fuPc = "returned" /\ fuStream = fuCounted /\ ShortLines(fuStream.pieces) =>
        fuResult = IF ~fuStream.there THEN -1
                   ELSE IF Hits = {} THEN 0
                   ELSE CHOOSE k \in Hits : \A h \in Hits : k <= h

(***************************************************************************)
(* Whatever happens to the file before, between and during the two passes, *)
(* and however long its lines are, every stream has been closed and a      *)
(* positive answer is the number of the first piece fgets returned that    *)
(* agrees with Url.                                                        *)
(***************************************************************************)
AnswerIsSound ==
    fuPc = "returned" =>
        /\ fuOpen = 0
        /\ fuResult > 0 =>
              /\ fuResult \in DOMAIN fuStream.pieces /\ Agrees(fuStream.pieces[fuResult])
              /\ \A k \in 1..fuResult - 1 : ~Agrees(fuStream.pieces[k])
=============================================================================
