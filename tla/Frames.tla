-------------------------------- MODULE Frames --------------------------------
(***************************************************************************)
(* Frames (jsonl_input.rs): records out of a stream, for every way the     *)
(* stream may be cut into reads.  A record that is too large is drained    *)
(* without being kept.  A read may be cancelled between any two steps: all *)
(* there is to lose is in the state.                                       *)
(*                                                                         *)
(* Symbols are LF, CR, a byte that ends no valid text, and all others.     *)
(***************************************************************************)
EXTENDS Naturals, Sequences, FiniteSets

CONSTANTS
  Inputs,   \* the streams that may arrive
  Maximum   \* bytes of a record

LF == "lf"
CR == "cr"
Bad == "bad"
Symbols == {LF, CR, Bad, "x"}

ASSUME FramesConstants == Maximum \in Nat /\ Inputs \subseteq Seq(Symbols)

VARIABLES
  input,      \* the whole stream
  rest,       \* what the reader still has
  bytes,      \* Frames.bytes
  oversized,  \* Frames.oversized
  frames,     \* what next has returned
  ended       \* next has returned None or an error

framesVars == <<input, rest, bytes, oversized, frames, ended>>

TooLarge == [kind |-> "tooLarge", bytes |-> <<>>]
Line(s) == [kind |-> "line", bytes |-> s]
Invalid == [kind |-> "invalid", bytes |-> <<>>]

FramesInit ==
  /\ input \in Inputs /\ rest = input /\ bytes = <<>> /\ oversized = FALSE
  /\ frames = <<>> /\ ended = FALSE

Last(s) == s[Len(s)]
Holds(s, symbol) == \E i \in DOMAIN s : s[i] = symbol
Without(s) == SubSeq(s, 1, Len(s) - 1)

\* Mutant: a CR at the end of the stream goes too.
FinishTrims(taken, over, newline) ==
  LET text == IF taken # <<>> /\ Last(taken) = CR THEN Without(taken) ELSE taken
      frame == IF over \/ Len(text) > Maximum THEN TooLarge
               ELSE IF Holds(text, Bad) THEN Invalid ELSE Line(text)
  IN /\ bytes' = <<>> /\ oversized' = FALSE
     /\ frames' = Append(frames, frame) /\ ended' = (frame = Invalid)

\* finish
Finish(taken, over, newline) ==
  LET text == IF newline /\ taken # <<>> /\ Last(taken) = CR THEN Without(taken) ELSE taken
      frame == IF over \/ Len(text) > Maximum THEN TooLarge
               ELSE IF Holds(text, Bad) THEN Invalid ELSE Line(text)
  IN /\ bytes' = <<>> /\ oversized' = FALSE
     /\ frames' = Append(frames, frame) /\ ended' = (frame = Invalid)

\* Mutant: the part that does not fit is cut off.
FitsCut(chunk) == Len(bytes) <= Maximum + 1

\* extend_bounded: one byte more than a record leaves room for a CR.
Fits(chunk) == Len(bytes) + Len(chunk) <= Maximum + 1

\* What a read found before its newline, if it found one.
ReadChunk(chunk, newline) ==
  LET over == oversized \/ ~Fits(chunk)
      taken == IF over THEN <<>> ELSE bytes \o chunk
  IN IF newline THEN Finish(taken, over, TRUE)
     ELSE bytes' = taken /\ oversized' = over /\ UNCHANGED <<frames, ended>>

\* fill_buf finds the next n bytes; the first newline ends what is consumed.
Read ==
  /\ ~ended
  /\ \E n \in 1..Len(rest) :
       LET available == SubSeq(rest, 1, n)
           newline == Holds(available, LF)
           count == IF newline
                    THEN CHOOSE i \in 1..n : rest[i] = LF /\ \A j \in 1..i - 1 : rest[j] # LF
                    ELSE n
       IN /\ ReadChunk(SubSeq(rest, 1, IF newline THEN count - 1 ELSE n), newline)
          /\ rest' = SubSeq(rest, count + 1, Len(rest))
  /\ UNCHANGED input

\* Mutant: what is left at the end of the stream is forgotten.
EndForgets ==
  /\ ~ended /\ rest = <<>> /\ ended' = TRUE /\ UNCHANGED <<input, rest, bytes, oversized, frames>>

\* The end of the stream: what is left is a record, and then there are no more.
EndOfInput ==
  /\ ~ended /\ rest = <<>>
  /\ IF oversized \/ bytes # <<>> THEN Finish(bytes, oversized, FALSE)
     ELSE ended' = TRUE /\ UNCHANGED <<bytes, oversized, frames>>
  /\ UNCHANGED <<input, rest>>

FramesNext == Read \/ EndOfInput
FramesSpec == FramesInit /\ [][FramesNext]_framesVars

-----------------------------------------------------------------------------
(* The reference: records between newlines, each judged as a whole. *)

Newlines == {i \in DOMAIN input : input[i] = LF}
StartOf(i) == 1 + (IF \E j \in Newlines : j < i
                   THEN CHOOSE j \in Newlines : j < i /\ \A k \in Newlines : k < i => k <= j
                   ELSE 0)

\* The record that ends before position i.
RecordAt(i) ==
  LET raw == SubSeq(input, StartOf(i), i - 1)
      text == IF i \in Newlines /\ raw # <<>> /\ Last(raw) = CR THEN Without(raw) ELSE raw
  IN IF Len(text) > Maximum THEN TooLarge ELSE IF Holds(text, Bad) THEN Invalid ELSE Line(text)

\* Ends of records: every newline, and the end of a stream that does not end in one.
Ends ==
  Newlines \cup (IF input # <<>> /\ Last(input) # LF THEN {Len(input) + 1} ELSE {})

\* The n-th end.
EndOf(n) == CHOOSE i \in Ends : Cardinality({j \in Ends : j <= i}) = n

-----------------------------------------------------------------------------
(* Properties *)

\* At every moment the n-th frame is the n-th record of the stream, however it was
\* cut: no suffix of a large record is read as a request, no CR at a boundary counts.
FramesAreRecords == \A n \in DOMAIN frames : frames[n] = RecordAt(EndOf(n))

\* In the end every record has its frame, but for those behind invalid text.
NothingIsLost ==
  ended => \/ \A i \in Ends : \E n \in DOMAIN frames : EndOf(n) = i
           \/ frames # <<>> /\ Last(frames) = Invalid

\* Never more than a record and a CR is kept, and an oversized record not at all.
RetentionBounded == Len(bytes) <= Maximum + 1 /\ (oversized => bytes = <<>>)

\* Together: what is read is what was sent, in bounded memory.
FramesAreExact == FramesAreRecords /\ NothingIsLost /\ RetentionBounded
=============================================================================
