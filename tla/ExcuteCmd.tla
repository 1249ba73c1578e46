----------------------------- MODULE ExcuteCmd ------------------------------
(***************************************************************************)
(* excute_cmd of report_key.c: runs a command with popen and collects its  *)
(* output in rbuf, a line or a buffer-full at a time.  Its only call, in   *)
(* report_key, is commented out.  The output is a sequence of "c" (any     *)
(* character) and "n" (newline).                                           *)
(*                                                                         *)
(* With room for the terminating zero alone, fgets returns an empty string *)
(* without looking at the stream, so it never reports the end of it.       *)
(***************************************************************************)
EXTENDS Naturals, Sequences

CONSTANTS LineSize,    \* sizeof(buf): 128
          MaxOutput,   \* bound: length of the command's output
          MaxRbuf      \* bound: rbuflen

ASSUME ExcuteCmdAssumption ==
    LineSize \in Nat \ {0, 1} /\ MaxOutput \in Nat /\ MaxRbuf \in Nat

VARIABLES ecPc,        \* where the call is
          ecOutput,    \* all the command writes
          ecRest,      \* what has not been read of it
          ecEof,       \* feof(pfile)
          rbuf,        \* what has been written to the caller's buffer
          rbuflen,     \* the room left in it
          ecSize       \* history: the caller's rbuflen

excuteCmdVars == <<ecPc, ecOutput, ecRest, ecEof, rbuf, rbuflen, ecSize>>

InitExcuteCmd ==
    /\ ecPc = "idle" /\ ecOutput = <<>> /\ ecRest = <<>> /\ ecEof = FALSE
    /\ rbuf = <<>> /\ rbuflen = 0 /\ ecSize = 0

\* rbuflen is 0 when there is no rbuf.  popen may fail.
CallExcuteCmd(out, size) ==
    /\ ecPc = "idle"
    /\ ecPc' \in {"read", "ended"}
    /\ ecOutput' = out /\ ecRest' = out
    /\ rbuflen' = size /\ ecSize' = size
    /\ UNCHANGED <<ecEof, rbuf>>

\* Fault: fgets is given the size of its buffer alone.
WholeLine == LineSize
\* Fault: one character of room is kept back.
OneLess == IF rbuflen - 1 < LineSize THEN rbuflen - 1 ELSE LineSize
\* MIN(rbuflen, sizeof(buf))
ReadLimit == IF rbuflen < LineSize THEN rbuflen ELSE LineSize

\* What fgets(buf, n) takes of s: at most n - 1 characters, none beyond a
\* newline.
Fetched(s, n) ==
    LET ends == {k \in DOMAIN s : s[k] = "n" \/ k = n - 1 \/ k = Len(s)}
    IN  IF n = 1 \/ s = <<>> THEN <<>>
        ELSE SubSeq(s, 1, CHOOSE k \in ends : \A e \in ends : k <= e)

\* fgets, snprintf to p, p and rbuflen moved on.  The end of the stream shows
\* when fgets looks for a character after the last one.
ReadLine ==
    /\ ecPc = "read" /\ ~ecEof
    /\ rbuflen > 0 /\ (ecRest # <<>> \/ ReadLimit = 1)
    /\ LET line == Fetched(ecRest, ReadLimit)
       IN  /\ rbuf' = rbuf \o line
           /\ rbuflen' = rbuflen - Len(line)
           /\ ecRest' = SubSeq(ecRest, Len(line) + 1, Len(ecRest))
           /\ ecEof' = (Len(line) < ReadLimit - 1 /\ line[Len(line)] # "n")
    /\ UNCHANGED <<ecPc, ecOutput, ecSize>>

\* *(p-1) = 0 when it is a newline
Chomped(s) == IF s # <<>> /\ s[Len(s)] = "n" THEN SubSeq(s, 1, Len(s) - 1) ELSE s

\* feof, no room or fgets returned NULL: the last newline, pclose.
EndCmd ==
    /\ ecPc = "read"
    /\ ecEof \/ rbuflen = 0 \/ (ecRest = <<>> /\ ReadLimit # 1)
    /\ rbuf' = Chomped(rbuf)
    /\ ecPc' = "closed"
    /\ UNCHANGED <<ecOutput, ecRest, ecEof, rbuflen, ecSize>>

Outputs == UNION {[1..k -> {"c", "n"}] : k \in 0..MaxOutput}
NextExcuteCmd ==
    \/ \E out \in Outputs, size \in 0..MaxRbuf : CallExcuteCmd(out, size)
    \/ ReadLine \/ EndCmd
-----------------------------------------------------------------------------
(***************************************************************************)
(* However the output is cut into lines and buffer-fulls, rbuf receives a  *)
(* beginning of it that leaves room for the terminating zero, and once the *)
(* pipe is closed all of it but one trailing newline (nothing, when there  *)
(* is no rbuf).                                                            *)
(***************************************************************************)
CapturesOutput ==
    /\ ecSize > 0 => Len(rbuf) < ecSize
    /\ ecPc = "read" => rbuf \o ecRest = ecOutput
    /\ ecPc = "closed" => rbuf = IF ecSize = 0 THEN <<>> ELSE Chomped(ecOutput)

(***************************************************************************)
(* Output that is shorter than rbuf by two or more is read to its end and  *)
(* the call returns.  (Longer output is never finished: see ReadLine.)     *)
(***************************************************************************)
ShortOutputEnds ==
    (ecPc = "read" /\ (Len(ecOutput) + 1 < ecSize \/ ecSize = 0)) ~> (ecPc = "closed")
=============================================================================
