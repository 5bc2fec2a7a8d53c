--------------------------- MODULE CappedCapture ----------------------------
(* read_capped of the shell executor and of the Bash tool: what is kept of a
   child's output.  A byte is told by its place in UTF-8: 0 continues a
   character, n in 1 .. 4 leads one of n bytes.                             *)
EXTENDS Naturals, Sequences, SequencesExt

CONSTANT Cap        \* bytes kept of a stream

ASSUME CapPositive == Cap \in Nat \ {0}

\* A chunk of the pipe is kept up to the cap.
Kept(got, chunk) ==
  IF Len(got \o chunk) <= Cap THEN got \o chunk ELSE SubSeq(got \o chunk, 1, Cap)

\* The walk back from a full buffer: over the continuation bytes, then over a
\* lead that promises more bytes than there were.
WalkedBack(got) ==
  LET end == SelectLastInSeq(got, LAMBDA b : b # 0)
      cut == end > 0 /\ got[end] > 1 /\ got[end] > Len(got) - end + 1
  IN  SubSeq(got, 1, IF cut THEN end - 1 ELSE end)

Captured(got) == IF Len(got) = Cap THEN WalkedBack(got) ELSE got

\* What UTF-8 allows, as far as it was written: a byte that continues a
\* character has its lead within reach.
Utf8(s) ==
  /\ s \in Seq(0 .. 4)
  /\ \A i \in DOMAIN s : s[i] = 0 => \E k \in 1 .. 3 : k < i /\ s[i - k] > k
=============================================================================
