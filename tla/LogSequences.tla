----------------------------- MODULE LogSequences -----------------------------
(***************************************************************************)
(* Facts about a file and the channel that is moved into it, for the       *)
(* proofs about spec.log.                                                  *)
(***************************************************************************)
EXTENDS Integers, Sequences, SequenceTheorems, TLAPS

\* What is in the channel comes last.
LEMMA SendKeeps ==
  ASSUME NEW E, NEW file \in Seq(E), NEW ch \in Seq(E), NEW e \in E
  PROVE  file \o Append(ch, e) = Append(file \o ch, e)
<1>1. file \o ch \in Seq(E) /\ <<e>> \in Seq(E)
  BY ConcatProperties
<1> QED
  BY <1>1, AppendIsConcat, ConcatAssociative

\* A sequence begins with its head.
LEMMA HeadFirst ==
  ASSUME NEW E, NEW ch \in Seq(E), ch # <<>>
  PROVE  ch = <<Head(ch)>> \o Tail(ch)
<1>1. /\ Head(ch) \in E /\ Tail(ch) \in Seq(E) /\ Len(Tail(ch)) = Len(ch) - 1
      /\ \A k \in 1 .. Len(Tail(ch)) : Tail(ch)[k] = ch[k + 1]
  BY HeadTailProperties
<1>2. Len(ch) \in Nat /\ Len(ch) # 0 /\ Head(ch) = ch[1]
  BY EmptySeq, LenProperties
<1> DEFINE joined == <<Head(ch)>> \o Tail(ch)
<1>3. <<Head(ch)>> \in Seq(E) /\ Len(<<Head(ch)>>) = 1
      /\ <<Head(ch)>>[1] = Head(ch)
  BY <1>1
<1>4. /\ joined \in Seq(E) /\ Len(joined) = 1 + Len(Tail(ch))
      /\ \A k \in 1 .. 1 + Len(Tail(ch)) :
           joined[k] = IF k <= 1 THEN <<Head(ch)>>[k] ELSE Tail(ch)[k - 1]
  BY <1>1, <1>3, ConcatProperties
<1>5. \A k \in 1 .. Len(ch) : joined[k] = ch[k]
  BY <1>1, <1>2, <1>3, <1>4
<1> HIDE DEF joined
<1>6. joined = ch
  BY <1>1, <1>2, <1>4, <1>5, SeqEqual
<1> QED
  BY <1>6 DEF joined

\* Moving the first event of the channel to the file changes nothing.
LEMMA DrainKeeps ==
  ASSUME NEW E, NEW file \in Seq(E), NEW ch \in Seq(E), ch # <<>>
  PROVE  /\ Append(file, Head(ch)) \o Tail(ch) = file \o ch
         /\ Append(file, Head(ch)) \in Seq(E) /\ Tail(ch) \in Seq(E)
         /\ Len(Tail(ch)) = Len(ch) - 1
<1>1. Head(ch) \in E /\ Tail(ch) \in Seq(E) /\ Len(Tail(ch)) = Len(ch) - 1
  BY HeadTailProperties
<1>2. Append(file, Head(ch)) = file \o <<Head(ch)>> /\ <<Head(ch)>> \in Seq(E)
  BY <1>1, AppendIsConcat
<1>3. (file \o <<Head(ch)>>) \o Tail(ch) = file \o (<<Head(ch)>> \o Tail(ch))
  BY <1>1, <1>2, ConcatAssociative
<1> QED
  BY <1>1, <1>2, <1>3, HeadFirst, AppendProperties
=============================================================================
