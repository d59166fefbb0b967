----------------------------- MODULE ConsoleLine -----------------------------
(***************************************************************************)
(* The console's way from a message to stderr: EmitLine assembles prefix,  *)
(* message and newline in one bounded buffer and WriteLine hands it to     *)
(* write(2) until all of it is taken, while other threads write lines of   *)
(* their own.  The messages are those of ArgPack's events, and those of    *)
(* EmitEventDynImpl and ReportHealthImpl, which need no pack.              *)
(*                                                                         *)
(* A byte of the line is its position in the buffer, what others write a   *)
(* mark.  An interrupted write (EINTR) and one that takes no byte change   *)
(* nothing and are repeated; snprintf cannot fail on these formats.        *)
(***************************************************************************)
EXTENDS ArgPack

CONSTANTS
    LineBytes,      \* size of EmitLine's buffer: 768
    PrefixSizes,    \* of colours, tag, time, process and source
    TextSizes       \* of messages that are formatted by their callers

ASSUME LineAssumption ==
    /\ LineBytes \in Nat /\ LineBytes > 1
    /\ PrefixSizes \subseteq Nat /\ TextSizes \subseteq Nat

VARIABLES
    stage,      \* "none", "write", "written" or "failed"
    bytes, off, \* len and off of WriteLine
    newline,    \* ghost: where the buffer has its newline, 0 for nowhere
    wire,       \* what stderr got since the line's first byte, 0 for others
    short       \* ghost: a write took less than it was offered

sink == <<stage, bytes, off, newline, wire, short>>
lineVars == <<vars, sink>>

NoLine ==
    /\ stage = "none" /\ bytes = 0 /\ off = 0
    /\ newline = 0 /\ wire = <<>> /\ short = FALSE

LineInit == Init /\ NoLine

-----------------------------------------------------------------------------
(* EmitLine *)

(* Fault: the end of a line that is cut stays what it was. *)
CutBare(n) == [len |-> Least(n, LineBytes - 1), newline |-> IF n < LineBytes THEN n ELSE 0]

(* Of n characters the buffer takes all but its last byte; a line that is  *)
(* cut gets its newline back.                                              *)
Cut(n) ==
    IF n >= LineBytes THEN [len |-> LineBytes - 1, newline |-> LineBytes - 1]
                      ELSE [len |-> n, newline |-> n]

(* The line of a message of m characters *)
EmitLine(m) ==
    /\ stage = "none"
    /\ \E p \in PrefixSizes :
         /\ bytes' = Cut(p + m + 1).len
         /\ newline' = Cut(p + m + 1).newline
    /\ stage' = "write" /\ off' = 0 /\ wire' = <<>> /\ short' = FALSE

(* EmitEventImpl: FormatMessage has returned, the pack is not read again. *)
EmitEventImpl == phase = "formatted" /\ EmitLine(len) /\ Again

(* EmitEventDynImpl, and the message of ReportHealthImpl: the text of a    *)
(* caller, cut to the message buffer.                                      *)
EmitEventDynImpl(n) ==
    /\ phase = "pack" /\ given = <<>>
    /\ EmitLine(Least(n, Cap - 1))
    /\ UNCHANGED vars

-----------------------------------------------------------------------------
(* WriteLine *)

(* Fault: each write starts at the beginning of the line. *)
WriteAgain(n) ==
    /\ stage = "write" /\ n <= bytes - off
    /\ wire' = wire \o [i \in 1 .. n |-> i]
    /\ off' = off + n
    /\ short' = (short \/ n < bytes - off)
    /\ stage' = IF off' = bytes THEN "written" ELSE "write"
    /\ UNCHANGED <<vars, bytes, newline>>

(* write(2) takes n bytes from data + off. *)
Write(n) ==
    /\ stage = "write" /\ n <= bytes - off
    /\ wire' = wire \o [i \in 1 .. n |-> off + i]
    /\ off' = off + n
    /\ short' = (short \/ n < bytes - off)
    /\ stage' = IF off' = bytes THEN "written" ELSE "write"
    /\ UNCHANGED <<vars, bytes, newline>>

(* stderr is gone: the rest of the line is given up. *)
WriteFails ==
    /\ stage = "write"
    /\ stage' = "failed"
    /\ UNCHANGED <<vars, bytes, off, newline, wire, short>>

(* Another thread's write comes between two of this one. *)
Others ==
    /\ stage = "write" /\ wire # <<>> /\ wire[Len(wire)] # 0
    /\ wire' = Append(wire, 0)
    /\ UNCHANGED <<vars, stage, bytes, off, newline, short>>

(* EmitLine returns. *)
Return ==
    /\ stage \in {"written", "failed"}
    /\ stage' = "none" /\ bytes' = 0 /\ off' = 0
    /\ newline' = 0 /\ wire' = <<>> /\ short' = FALSE
    /\ UNCHANGED vars

-----------------------------------------------------------------------------

(* An event that is packed and formatted, or that ends in UnboundEmitEvent *)
Event ==
    /\ stage = "none"
    /\ Prepare \/ (phase = "done" /\ Again)
    /\ UNCHANGED sink

LineNext ==
    \/ Event
    \/ EmitEventImpl \/ (\E n \in TextSizes : EmitEventDynImpl(n))
    \/ (\E n \in 1 .. LineBytes : Write(n)) \/ WriteFails \/ Others \/ Return

LineSpec == LineInit /\ [][LineNext]_lineVars

-----------------------------------------------------------------------------
(* Properties. *)

(* Bytes 1 to n of the line, each once and in order, whatever is between *)
InOrder(s, n) ==
    /\ \A i \in 1 .. Len(s) : s[i] \in 0 .. n
    /\ \A b \in 1 .. n : \E i \in 1 .. Len(s) : s[i] = b
    /\ \A i, j \in 1 .. Len(s) : i < j /\ s[i] # 0 /\ s[j] # 0 => s[i] < s[j]

(* Once WriteLine is through, stderr has every byte of the line once and   *)
(* in order, up to a newline that ends it and no NUL behind it, however    *)
(* write(2) portioned it and however long prefix and message were; and     *)
(* other threads' lines are in the middle of it only where write(2) did    *)
(* not take the line at once.                                              *)
LineArrives ==
    stage = "written" =>
        /\ InOrder(wire, bytes)
        /\ newline = bytes /\ bytes < LineBytes
        /\ short \/ Len(wire) = bytes

-----------------------------------------------------------------------------
(* Why: the same of every prefix that was written. *)

LineInv ==
    /\ stage \in {"none", "write", "written", "failed"}
    /\ bytes \in Nat /\ off \in Nat /\ wire \in Seq(Nat) /\ short \in BOOLEAN
    /\ newline = bytes /\ bytes < LineBytes
    /\ off <= bytes /\ InOrder(wire, off)
    /\ stage = "written" => off = bytes
    /\ ~short => Len(wire) = off /\ (stage = "write" => off = 0)
=============================================================================
