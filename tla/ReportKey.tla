----------------------------- MODULE ReportKey ------------------------------
(***************************************************************************)
(* report_key.c: report_key reads the device's name from a configuration   *)
(* file, builds a JSON object and posts it with libcurl, which calls       *)
(* WriteMemoryCallback for every part of the answer.  What matters is      *)
(* which block of memory is held at which point, and what the answer       *)
(* buffer holds when it is printed.                                        *)
(***************************************************************************)
EXTENDS Naturals, Sequences

CONSTANT MaxParts   \* bound: parts of the server's answer

ASSUME ReportKeyAssumption == MaxParts \in Nat \ {0}

VARIABLES rkPc,       \* where the call is
          held,       \* blocks allocated and not freed
          device_id,  \* whether report_key has a device_id
          answer,     \* history: parts the server has sent
          chunk,      \* chunk.memory: null, raw (never written) or text, and the
                      \* parts of the answer it holds
          rkPrinted   \* what was printed of the answer, as chunk

reportKeyVars == <<rkPc, held, device_id, answer, chunk, rkPrinted>>

Memory(m) == [mem |-> m, parts |-> <<>>]

InitReportKey ==
    /\ rkPc = "idle" /\ held = {} /\ device_id = FALSE
    /\ answer = 0 /\ chunk = Memory("null") /\ rkPrinted = Memory("none")

(***************************************************************************)
(* get_duercfg: the file cannot be read, is no JSON, has no such member or *)
(* one that is no string, or the name is copied, by a strdup that may      *)
(* fail.  The labels Err3, Err2 and Err1 release from the last acquired.   *)
(***************************************************************************)
Outcomes == {"no file", "no json", "no member", "no string", "copied", "strdup failed"}
Acquired(o) == CASE o = "no file" -> {}
                 [] o = "no json" -> {"json_str"}
                 [] OTHER         -> {"json_str", "obj"}
ReleasedFrom(label) == CASE label = "Err3" -> {"obj", "json_str"}
                         [] label = "Err2" -> {"json_str"}
                         [] label = "Err1" -> {}

\* Fault: the errors after the parse jump to Err2, as in get_duercfg_volume.
TooLate(o) == CASE o = "no file" -> "Err1"
                [] o \in {"no json", "no member", "no string"} -> "Err2"
                [] OTHER -> "Err3"
ErrorLabel(o) == CASE o = "no file" -> "Err1"
                   [] o = "no json" -> "Err2"
                   [] OTHER         -> "Err3"

GetDuercfg(o) ==
    /\ rkPc = "idle"
    /\ held' = (Acquired(o) \ ReleasedFrom(ErrorLabel(o)))
                   \cup (IF o = "copied" THEN {"device_id"} ELSE {})
    /\ device_id' = (o = "copied")
    /\ rkPc' = "build"
    /\ UNCHANGED <<answer, chunk, rkPrinted>>

(***************************************************************************)
(* report_key                                                              *)
(***************************************************************************)
Objects == <<"infor", "para", "array">>

\* One of the three objects cannot be made: those before it are put back and
\* report_key returns, with device_id still allocated.
PutBack(n) == {Objects[k] : k \in 1..(n - 1)}

ObjectFails(n) ==
    /\ rkPc = "build"
    /\ held' = (held \cup {Objects[k] : k \in 1..(n - 1)}) \ PutBack(n)
    /\ rkPc' = "given up"
    /\ UNCHANGED <<device_id, answer, chunk, rkPrinted>>

\* json_object_new_string(device_id) takes the length of a null pointer.
NullDeviceId ==
    /\ rkPc = "build" /\ ~device_id
    /\ rkPc' = "crashed"
    /\ UNCHANGED <<held, device_id, answer, chunk, rkPrinted>>

\* The members, the array of one and infor_object, which owns the others; then
\* free(device_id), as the strings of the object are copies.
Build ==
    /\ rkPc = "build" /\ device_id
    /\ held' = (held \cup {"infor", "para", "array"}) \ {"device_id"}
    /\ rkPc' = "curl"
    /\ UNCHANGED <<device_id, answer, chunk, rkPrinted>>

(***************************************************************************)
(* curl_init_and_reportdata: malloc(1) may fail, unnoticed; without a curl *)
(* handle the buffer is not freed.                                         *)
(***************************************************************************)
CurlInit ==
    /\ rkPc = "curl"
    /\ \E m \in {"raw", "null"} : chunk' = Memory(m)
    /\ \E got \in SUBSET {"curl", "list"} :
          /\ held' = held \cup got \cup (IF chunk'.mem = "raw" THEN {"chunk"} ELSE {})
          /\ "list" \in got => "curl" \in got
          /\ rkPc' = IF "curl" \in got THEN "perform" ELSE "returned"
    /\ UNCHANGED <<device_id, answer, rkPrinted>>

\* Fault: every part is copied to the beginning of the buffer.
Overwritten(n) == [mem |-> "text", parts |-> <<n>>]
\* memcpy to memory[size], size += realsize, memory[size] = 0
Extended(n) == [mem |-> "text", parts |-> Append(chunk.parts, n)]

WritePart ==
    /\ rkPc = "perform" /\ answer < MaxParts
    /\ answer' = answer + 1
    /\ chunk' = Extended(answer + 1)
    /\ held' = held \cup {"chunk"}
    /\ UNCHANGED <<rkPc, device_id, rkPrinted>>

\* realloc returns NULL: the old block is left behind and libcurl gives up.
PartRefused ==
    /\ rkPc = "perform" /\ answer < MaxParts
    /\ answer' = answer + 1
    /\ chunk' = Memory("null")
    /\ held' = IF "chunk" \in held THEN (held \ {"chunk"}) \cup {"old chunk"} ELSE held
    /\ rkPc' = "failed"
    /\ UNCHANGED <<device_id, rkPrinted>>

\* curl_easy_perform returns.  The answer is printed unless it failed, then
\* the handle and the buffer go; the header list and the object stay.
PerformEnds ==
    /\ \/ rkPc = "perform" /\ rkPrinted' \in {chunk, Memory("none")}
       \/ rkPc = "failed" /\ UNCHANGED rkPrinted
    /\ held' = held \ {"curl", "chunk"}
    /\ rkPc' = "returned"
    /\ UNCHANGED <<device_id, answer, chunk>>

NextReportKey ==
    \/ \E o \in Outcomes : GetDuercfg(o)
    \/ \E n \in DOMAIN Objects : ObjectFails(n)
    \/ NullDeviceId \/ Build
    \/ CurlInit \/ WritePart \/ PartRefused \/ PerformEnds
-----------------------------------------------------------------------------
(***************************************************************************)
(* The error paths release by hand what was acquired before them.          *)
(* Whatever is wrong with the configuration file, get_duercfg leaves       *)
(* neither the file's text nor the parsed object behind; and when          *)
(* report_key gives up because an object cannot be made, it has put back   *)
(* each object it had made (only the name is not freed).                   *)
(***************************************************************************)
ErrorPathsRelease ==
    /\ held \cap {"json_str", "obj"} = {}
    /\ rkPc = "given up" => held \subseteq {"device_id"}

(***************************************************************************)
(* What is printed of an answer is all of it, in order: only a server that *)
(* sends nothing has the buffer printed that was never written.            *)
(***************************************************************************)
PrintsWholeAnswer ==
    /\ rkPrinted.mem \in {"raw", "null"} => answer = 0
    /\ rkPrinted.mem = "text" => rkPrinted.parts = [k \in 1..answer |-> k]
=============================================================================
