----------------------------- MODULE Telemetry -----------------------------
(***************************************************************************)
(* From the bytes nvtop prints to the answers of the sidecar: the Framer   *)
(* cuts frames out of the stream, OnSnapshot (web/cmd/nvtop-web/main.go)   *)
(* parses one and hands it to the Store, the HTTP handlers read the Store. *)
(*                                                                         *)
(* nvtop is seen from outside: it prints arrays, with strings that quote   *)
(* backslashes and quotes but not control bytes (src/nvtop.c), anything    *)
(* but an opening bracket between them, and may die at any byte, upon      *)
(* which its successor gets a new Framer.  How the collector lives with    *)
(* the processes is in Sidecar; here the next bytes wait until a frame has *)
(* been handled.                                                           *)
(***************************************************************************)
EXTENDS Store, Framer

CONSTANT MaxArray       \* bound: bytes of an array nvtop prints

ASSUME TelemetryAssumption == MaxArray \in Nat

VARIABLES
    array,      \* what nvtop has printed of an array, <<>> between arrays
    open,       \* the brackets it has opened
    quoted,     \* where it is in a string: "no", "yes", "escape"
    framer,     \* the local variables of Framer.Next
    frames,     \* the frame that is being handled: none or one
    expected,   \* the array that was printed last, if it is not too long
    refused     \* a frame was refused and OnStatus has not returned

printer == <<array, open, quoted>>
reader == <<framer, frames, expected>>
telemetryVars == <<vars, printer, reader, refused>>

TelemetryInit ==
    /\ Init
    /\ array = <<>> /\ open = <<>> /\ quoted = "no"
    /\ framer = NewFramer /\ frames = <<>> /\ expected = <<>>
    /\ refused = FALSE

-----------------------------------------------------------------------------
(* nvtop                                                                   *)

Closes == [b \in {"]", "}"} |-> IF b = "]" THEN "[" ELSE "{"]

\* What nvtop may print next
Printable ==
    CASE quoted = "escape" -> Byte \ {"control"}
      [] quoted = "yes"    -> Byte
      [] quoted = "no" /\ open = <<>> -> Byte
      [] OTHER -> {"[", "{", "quote", "control", "other"}
                  \cup {b \in DOMAIN Closes : Last(open) = Closes[b]}

Opened(b) ==
    CASE quoted = "no" /\ b \in {"[", "{"} -> Append(open, b)
      [] quoted = "no" /\ b \in {"]", "}"} -> Front(open)
      [] OTHER                            -> open

Quoted(b) ==
    CASE quoted = "no"     -> IF b = "quote" THEN "yes" ELSE "no"
      [] quoted = "escape" -> "yes"
      [] quoted = "yes"    -> IF b = "backslash" THEN "escape"
                              ELSE IF b = "quote" THEN "no" ELSE "yes"

\* One byte goes through the pipe.
PrintByte ==
    /\ frames = <<>> /\ pending = NoMeta /\ ~refused /\ Len(array) < MaxArray
    /\ \E b \in Printable :
          LET noise == open = <<>> /\ b # "["
              grown == Append(array, b)
              ends  == ~noise /\ Opened(b) = <<>>
          IN  /\ IF noise THEN UNCHANGED printer
                 ELSE /\ array' = IF ends THEN <<>> ELSE grown
                      /\ open' = Opened(b) /\ quoted' = Quoted(b)
              /\ expected' = IF ends /\ Len(grown) <= MaxFrame THEN <<grown>> ELSE <<>>
              /\ LET read == ReadByte(framer, b)
                 IN  framer' = read.framer /\ frames' = read.frames
    /\ UNCHANGED <<vars, refused>>

\* nvtop dies and is started again.
Restart ==
    /\ frames = <<>> /\ pending = NoMeta /\ ~refused
    /\ array' = <<>> /\ open' = <<>> /\ quoted' = "no"
    /\ framer' = NewFramer /\ expected' = <<>>
    /\ UNCHANGED <<vars, frames, refused>>

-----------------------------------------------------------------------------
(* The collector                                                           *)

\* Parse, as far as the bytes decide: a field of the wrong type is refused too.
Parses(frame) == ~ControlInString(sanitizeFrame(frame))

Accept ==
    /\ frames # <<>> /\ Parses(frames[1])
    /\ OnSnapshot
    /\ frames' = <<>> /\ expected' = <<>>
    /\ UNCHANGED <<printer, framer, refused>>

Refuse ==
    /\ frames # <<>>
    /\ frames' = <<>> /\ expected' = <<>>
    /\ refused' = TRUE
    /\ UNCHANGED <<vars, printer, framer>>

\* After a refused frame, or after an error of the child
StatusRead ==
    /\ frames = <<>> /\ array = <<>>
    /\ OnStatusRead
    /\ refused => pending'.status = "stale"
    /\ UNCHANGED <<printer, reader, refused>>

StatusWrite ==
    /\ OnStatusWrite
    /\ refused' = FALSE
    /\ UNCHANGED <<printer, reader>>

TelemetryNext == PrintByte \/ Restart \/ Accept \/ Refuse \/ StatusRead \/ StatusWrite

TelemetrySpec == TelemetryInit /\ [][TelemetryNext]_telemetryVars

-----------------------------------------------------------------------------
(* Properties                                                              *)

\* The frames are exactly the arrays nvtop printed, byte for byte and each once,
\* those above the limit left out: no bracket, quote or escape in a string, no
\* noise, no array that was too long and no child that died in the middle of one
\* makes the Framer lose its place.
FramesMatch == frames = expected

\* And no process can make them unreadable by what it calls itself ("keeps one
\* hostile cmdline from poisoning all telemetry").
FramesAreArrays ==
    /\ FramesMatch
    /\ frames # <<>> => Parses(frames[1])
=============================================================================
