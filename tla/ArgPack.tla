------------------------------- MODULE ArgPack -------------------------------
(***************************************************************************)
(* One event on its way to its text: PackArgs copies the arguments into    *)
(* the bounded ArgPack of binding.hpp, argument by argument, and           *)
(* FormatMessage of telemetry_console_binding.cpp, or FormatInto of        *)
(* telemetry_unbound.cpp where no table is bound, renders the pack against *)
(* the format, placeholder by placeholder, into a bounded buffer.          *)
(*                                                                         *)
(* An argument is its kind and size, a format a succession of pieces, text *)
(* its length: what the two bounds do to an event depends on nothing else. *)
(***************************************************************************)
EXTENDS Integers, Sequences

CONSTANTS
    kMaxArgs, kBufBytes,    \* of ArgPack: 8 and 160
    Cap,                    \* size of the message buffer: 512
    TmpBytes,               \* size of RenderNumeric's buffer: 192
    kMaxWidth, kMaxPrec,    \* clamps of a format spec: 96 and 64
    StrSizes,               \* sizes of string arguments
    NumberSizes,            \* characters a number takes
    Widths, Precs,          \* what a spec may ask for
    MaxGiven, MaxPieces     \* bounds: arguments and pieces of the format

Byte == 256     \* count, offsets, lens and used are uint8

ASSUME PackAssumption ==
    /\ kMaxArgs \in Nat /\ kMaxArgs < Byte
    /\ kBufBytes \in Nat /\ kBufBytes < Byte
    /\ Cap \in Nat \ {0} /\ TmpBytes \in Nat \ {0}
    /\ kMaxWidth \in Nat /\ kMaxPrec \in Nat
    /\ StrSizes \subseteq Nat /\ NumberSizes \subseteq Nat
    /\ Widths \subseteq Nat /\ Precs \subseteq Nat
    /\ MaxGiven \in Nat /\ MaxPieces \in Nat

VARIABLES
    phase,      \* "pack", the formatter that runs, "formatted" or "done"
    given,      \* the arguments of the call packed or dropped so far
    entries,    \* types, offsets and lens of ArgPack, count of them
    used,
    pieces,     \* pieces of the format so far
    next, len,  \* locals of the formatter
    shown       \* ghost: what each placeholder showed, 0 for "{?}"

pack == <<given, entries, used>>
output == <<pieces, next, len, shown>>
vars == <<phase, pack, output>>

Least(i, j) == IF i <= j THEN i ELSE j

Scalars == {[kind |-> "bool", size |-> 1], [kind |-> "word", size |-> 8]}
Strings == [kind : {"str"}, size : StrSizes]

Init ==
    /\ phase = "pack"
    /\ given = <<>> /\ entries = <<>> /\ used = 0
    /\ pieces = 0 /\ next = 0 /\ len = 0 /\ shown = <<>>

-----------------------------------------------------------------------------
(* PackArgs *)

(* Fault: the room left is tested before the argument's own size is. *)
RoomForOne(n) == Len(entries) < kMaxArgs /\ used < kBufBytes

(* The test of PutRaw, on the int that used promotes to *)
Room(n) == Len(entries) < kMaxArgs /\ used + n <= kBufBytes

(* An entry of the pack; its of is a ghost, the argument it holds. *)
Entry(a, n, display) ==
    [kind |-> a.kind, offset |-> used, size |-> n, len |-> display % Byte,
     of |-> Len(given) + 1]

PutRaw(a, n, display) ==
    IF Room(n)
      THEN /\ entries' = Append(entries, Entry(a, n, display))
           /\ used' = (used + n) % Byte
      ELSE UNCHANGED <<entries, used>>

(* Fault: the size is clamped to the length field alone. *)
KeptWhole(size) == Least(size, 255)

(* What PackStr keeps of a string *)
Kept(size) == Least(Least(size, kBufBytes - used), 255)

PackOne(a) ==
    /\ phase = "pack" /\ Len(given) < MaxGiven
    /\ IF a.kind = "str" THEN PutRaw(a, Kept(a.size), Kept(a.size))
                         ELSE PutRaw(a, a.size, 0)
    /\ given' = Append(given, a)
    /\ UNCHANGED <<phase, output>>

Formatters == {"FormatMessage", "FormatInto"}

(* PackArgs returns and the console's emit_event, or UnboundEmitEvent,     *)
(* formats.                                                                *)
Pass ==
    /\ phase = "pack"
    /\ phase' \in Formatters
    /\ UNCHANGED <<pack, output>>

-----------------------------------------------------------------------------
(* FormatMessage and FormatInto *)

(* ParseSpec: the width and precision of a spec inside the subset, clamped *)
ParseSpec(w, p) == [width |-> Least(w, kMaxWidth), prec |-> Least(p, kMaxPrec)]

(* The spec of "{}", of one outside the subset, and of one that does not   *)
(* apply to the type of its argument; -1 is unset.                         *)
Default == [width |-> -1, prec |-> -1]

Specs ==
    {Default} \cup
    {ParseSpec(w, p) : w \in Widths \cup {-1}, p \in Precs \cup {-1}}

(* Fault: the last byte is not kept for the terminator. *)
AppendRawFull(n) == Least(n, Cap - len)

(* AppendRaw: how much of n characters the buffer takes *)
AppendRaw(n) == Least(n, Cap - 1 - len)

(* RenderNumeric of n characters, at least the spec's width, through its   *)
(* own buffer; the text of a bool goes the same way, without a precision.  *)
RenderNumeric(n, spec) ==
    Least(IF n < spec.width THEN spec.width ELSE n, TmpBytes - 1)

(* The string of RenderArg: the precision cuts it, the width pads it. *)
RenderString(n, spec) ==
    LET cut == IF spec.prec >= 0 THEN Least(spec.prec, n) ELSE n
    IN  IF spec.width > cut THEN spec.width ELSE cut

(* The lengths RenderArg may produce for an entry *)
RenderArg(e, spec) ==
    CASE e.kind = "str" -> {RenderString(e.len, spec)}
      [] e.kind = "bool" -> {RenderNumeric(n, spec) : n \in {1, 4, 5}}
      [] e.kind = "word" -> {RenderNumeric(n, spec) : n \in NumberSizes}

(* AppendArg of FormatInto: the default rendering, whatever the spec *)
AppendArg(e) == RenderArg(e, Default)

(* How long a placeholder may become *)
Rendered(e, spec) ==
    IF phase = "FormatInto" THEN AppendArg(e) ELSE RenderArg(e, spec)

(* The loop condition of the formatters, and the bound on the format *)
Piece ==
    /\ phase \in Formatters /\ len < Cap - 1 /\ pieces < MaxPieces
    /\ pieces' = pieces + 1

(* A character, or an escaped brace *)
Literal ==
    /\ Piece
    /\ len' = len + 1
    /\ UNCHANGED <<phase, pack, next, shown>>

(* Fault: the next placeholder starts from the same argument. *)
PlaceholderAgain(spec) ==
    /\ Piece
    /\ IF next < Len(entries)
         THEN /\ \E n \in Rendered(entries[next + 1], spec) :
                    len' = len + AppendRaw(n)
              /\ shown' = Append(shown, entries[next + 1].of)
         ELSE /\ len' = len + AppendRaw(3)
              /\ shown' = Append(shown, 0)
    /\ UNCHANGED <<phase, pack, next>>

Placeholder(spec) ==
    /\ Piece
    /\ IF next < Len(entries)
         THEN /\ \E n \in Rendered(entries[next + 1], spec) :
                    len' = len + AppendRaw(n)
              /\ next' = next + 1
              /\ shown' = Append(shown, entries[next + 1].of)
         ELSE /\ len' = len + AppendRaw(3)
              /\ shown' = Append(shown, 0)
              /\ UNCHANGED next
    /\ UNCHANGED <<phase, pack>>

(* The end of the format, an unterminated placeholder, or a full buffer:   *)
(* the terminator goes to out[len].  The console has a line to make of it. *)
Terminate ==
    /\ phase \in Formatters
    /\ phase' = IF phase = "FormatMessage" THEN "formatted" ELSE "done"
    /\ UNCHANGED <<pack, output>>

(* The next event starts with a pack and a buffer of its own. *)
Again ==
    /\ phase \in {"formatted", "done"}
    /\ phase' = "pack"
    /\ given' = <<>> /\ entries' = <<>> /\ used' = 0
    /\ pieces' = 0 /\ next' = 0 /\ len' = 0 /\ shown' = <<>>

(* One event, up to its text *)
Prepare ==
    \/ \E a \in Scalars \cup Strings : PackOne(a)
    \/ Pass
    \/ Literal \/ (\E spec \in Specs : Placeholder(spec)) \/ Terminate

Next == Prepare \/ Again

Spec == Init /\ [][Next]_vars

-----------------------------------------------------------------------------
(* Properties. *)

Kinds == {"bool", "word", "str"}

(* The types of the pack and of the formatter's locals. *)
TypeOK ==
    /\ given \in Seq([kind : Kinds, size : Nat])
    /\ entries \in Seq([kind : Kinds, offset : Nat, size : Nat, len : Nat, of : Nat])
    /\ used \in Nat /\ next \in Nat /\ len \in Nat

(* The end of an entry's bytes in the buffer *)
End(e) == e.offset + e.size

(* The bytes of the entries lie one after the other from the start of buf  *)
(* to used, so that no memcpy of PutRaw or of a renderer leaves the buffer *)
(* or meets another argument, and no uint8 field has lost a bit.           *)
PackInv ==
    /\ Len(entries) <= kMaxArgs
    /\ used <= kBufBytes
    /\ \A i \in 1 .. Len(entries) :
         /\ entries[i].offset = IF i = 1 THEN 0 ELSE End(entries[i - 1])
         /\ End(entries[i]) <= used
         /\ entries[i].kind = "str" => entries[i].len = entries[i].size
    /\ used = IF entries = <<>> THEN 0 ELSE End(entries[Len(entries)])

(* The formatters' writes, the terminator included, stay in the buffer. *)
OutputInBounds == len + 1 <= Cap

(* A string argument is cut rather than dropped: while fewer than kMaxArgs *)
(* arguments were given, each string among them is in the pack, with as    *)
(* much of it as the room allowed.                                         *)
StringsAreCutNotDropped ==
    \A j \in 1 .. Least(Len(given), kMaxArgs) :
        given[j].kind = "str" =>
            \E i \in 1 .. Len(entries) :
                /\ entries[i].of = j
                /\ \/ entries[i].len = given[j].size
                   \/ entries[i].len = 255
                   \/ End(entries[i]) = kBufBytes

(* Placeholder j shows argument j or "{?}". *)
Aligned == \A j \in 1 .. Len(shown) : shown[j] \in {0, j}

(* An event that leaves room for a word in the buffer shows each argument  *)
(* at its own placeholder: only those past kMaxArgs are missing, and their *)
(* placeholders show "{?}".                                                *)
FittingEventsAlign == used + 8 <= kBufBytes => Aligned

-----------------------------------------------------------------------------
(* Why: what the last two rest on. *)

(* Fewer arguments are packed than given, and with room for a word left    *)
(* none was dropped but those past kMaxArgs.                               *)
CountInv ==
    /\ Len(entries) <= Len(given)
    /\ used + 8 <= kBufBytes =>
         /\ Len(entries) = Least(Len(given), kMaxArgs)
         /\ \A i \in 1 .. Len(entries) : entries[i].of = i

(* The placeholders took the entries in their order, then ran out. *)
ShownInv ==
    /\ shown \in Seq(Nat)
    /\ phase = "pack" => shown = <<>>
    /\ next = Least(Len(shown), Len(entries))
    /\ \A j \in 1 .. Len(shown) :
         shown[j] = IF j <= next THEN entries[j].of ELSE 0

=============================================================================
