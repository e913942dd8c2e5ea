------------------------------- MODULE Framer -------------------------------
(***************************************************************************)
(* How the sidecar finds a frame in what nvtop prints                      *)
(* (web/internal/collector/framer.go) and makes it valid JSON              *)
(* (sanitizeFrame, web/internal/collector/parser.go).  Both walk over      *)
(* bytes, of which only the class matters.                                 *)
(***************************************************************************)
EXTENDS Integers, Sequences, SequencesExt

CONSTANT MaxFrame       \* maxFrameSize

ASSUME FramerAssumption == MaxFrame \in Nat \ {0}

Byte == {"[", "]", "{", "}", "quote", "backslash", "control", "other"}

(***************************************************************************)
(* Framer.Next, one byte at a time: the local variables between two bytes, *)
(* and the frames (none or one) that a byte completes.                     *)
(***************************************************************************)

NewFramer ==
    [frame |-> <<>>, square |-> 0, curly |-> 0, inString |-> FALSE, escaped |-> FALSE,
     discarding |-> FALSE]

Between(f) == f.frame = <<>> /\ ~f.discarding

Kept(f, b) == IF f.discarding THEN f ELSE [f EXCEPT !.frame = Append(@, b)]

\* Fault: every quote ends a string.
InStringNoEscape(f, b) == [f EXCEPT !.inString = b # "quote"]

InString(f, b) ==
    CASE f.escaped                       -> [f EXCEPT !.escaped = FALSE]
      [] ~f.escaped /\ b = "backslash"   -> [f EXCEPT !.escaped = TRUE]
      [] ~f.escaped /\ b = "quote"       -> [f EXCEPT !.inString = FALSE]
      [] OTHER                           -> f

Less(n) == IF n > 0 THEN n - 1 ELSE 0
Counted(f, b) ==
    CASE b = "[" -> [f EXCEPT !.square = @ + 1]
      [] b = "]" -> [f EXCEPT !.square = Less(@)]
      [] b = "{" -> [f EXCEPT !.curly = @ + 1]
      [] b = "}" -> [f EXCEPT !.curly = Less(@)]
      [] OTHER   -> f

\* A frame that is too long is read to its end and dropped.
Limited(f) ==
    IF ~f.discarding /\ Len(f.frame) > MaxFrame
    THEN [f EXCEPT !.frame = <<>>, !.discarding = TRUE]
    ELSE f

Completed(f) ==
    IF f.square = 0 /\ f.curly = 0
    THEN [framer |-> NewFramer, frames |-> IF f.discarding THEN <<>> ELSE <<f.frame>>]
    ELSE [framer |-> f, frames |-> <<>>]

Goes(f) == [framer |-> f, frames |-> <<>>]

ReadByte(f, b) ==
    CASE Between(f) /\ b # "["   -> Goes(f)
      [] Between(f) /\ b = "["   -> Goes([NewFramer EXCEPT !.frame = <<b>>, !.square = 1])
      [] ~Between(f) /\ f.inString              -> Goes(InString(Kept(f, b), b))
      [] ~Between(f) /\ ~f.inString /\ b = "quote" -> Goes([Kept(f, b) EXCEPT !.inString = TRUE])
      [] OTHER                                  -> Completed(Limited(Counted(Kept(f, b), b)))

(***************************************************************************)
(* sanitizeFrame: a control byte in a string is written as an escape, which *)
(* is several bytes, none of them a control byte or a quote: "unicode".    *)
(***************************************************************************)

Outside == [inString |-> FALSE, escaped |-> FALSE]

\* Where the scanner is after a byte that is copied
Scan(at, b) ==
    CASE at.inString /\ at.escaped                      -> [at EXCEPT !.escaped = FALSE]
      [] at.inString /\ ~at.escaped /\ b = "backslash"  -> [at EXCEPT !.escaped = TRUE]
      [] ~(at.inString /\ at.escaped) /\ b = "quote"    -> [at EXCEPT !.inString = ~@]
      [] OTHER                                          -> at

\* The loop's body: what has been written, and where the scanner is
Sanitized(done, b) ==
    IF done.at.inString /\ b = "control"
    THEN [out |-> Append(done.out, "unicode"), at |-> done.at]
    ELSE [out |-> Append(done.out, b), at |-> Scan(done.at, b)]

sanitizeFrame(frame) ==
    LET done[i \in 0 .. Len(frame)] ==
            IF i = 0 THEN [out |-> <<>>, at |-> Outside] ELSE Sanitized(done[i - 1], frame[i])
    IN  done[Len(frame)].out

\* json.Unmarshal takes no control byte in a string.
ControlInString(frame) ==
    LET at[i \in 0 .. Len(frame)] == IF i = 0 THEN Outside ELSE Scan(at[i - 1], frame[i])
    IN  \E i \in 1 .. Len(frame) : at[i - 1].inString /\ frame[i] = "control"
=============================================================================
