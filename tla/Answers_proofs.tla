---------------------------- MODULE Answers_proofs ----------------------------
(***************************************************************************)
(* Theorems about Answers, for any handlers, library, limits and lengths.  *)
(*                                                                         *)
(* The handlers use the ID of the folder by the steps of MusicFolder only, *)
(* so that its theorems hold for them.                                     *)
(*                                                                         *)
(* That answers are complete rests on what the texts and their chunks      *)
(* show, FlattenSeq of what their blocks show: a formatter shows every     *)
(* album once, and SplitMessage takes every block whole, in its place, but *)
(* for one that is cut in front of all chunks.  There is always a heading  *)
(* in front, and it fits.  The folds are unrolled into functions over the  *)
(* blocks taken so far, for an induction over their number.                *)
(***************************************************************************)
EXTENDS Answers, MusicFolder_proofs, Recursion, FiniteSetTheorems,
        SequenceTheorems

(***************************************************************************)
(* The folder.                                                             *)
(***************************************************************************)
LEMMA HandlersFollowFolder ==
    ASSUME NEW w \in Callers, Receive(w) \/ Proceed(w)
    PROVE  [FolderNext]_foldervars
<1>1. CASE Receive(w)
  <2>1. CallFolder(w) \/ UNCHANGED foldervars
    BY <1>1 DEF Receive
  <2> QED
    BY <2>1 DEF FolderNext
<1>2. CASE InFolder(w)
  BY <1>2 DEF InFolder, FolderNext
<1>3. CASE List(w)
  <2>1. ReturnFolder(w)
    BY <1>3 DEF List
  <2> QED
    BY <2>1 DEF FolderNext
<1>4. CASE Query(w) \/ SendPhoto(w) \/ SendMedia(w) \/ SendChunk(w) \/ Done(w)
  <2>1. UNCHANGED foldervars
    BY <1>4 DEF Query, SendPhoto, SendMedia, SendChunk, Done
  <2> QED
    BY <2>1
<1> QED
  BY <1>1, <1>2, <1>3, <1>4 DEF Proceed

LEMMA AnswersFollowFolder == Spec => FolderSpec
<1>1. Init => FolderInit
  BY DEF Init
<1>2. [Next]_vars => [FolderNext]_foldervars
  <2> SUFFICES ASSUME [Next]_vars PROVE [FolderNext]_foldervars
    OBVIOUS
  <2>1. ASSUME NEW w \in Callers, Receive(w) \/ Proceed(w)
        PROVE  [FolderNext]_foldervars
    BY <2>1, HandlersFollowFolder
  <2>2. CASE Restart
    BY <2>2 DEF Restart, FolderNext
  <2>3. CASE UNCHANGED vars
    BY <2>3 DEF vars
  <2> QED
    BY <2>1, <2>2, <2>3 DEF Next
<1> QED
  BY <1>1, <1>2, PTL DEF Spec, FolderSpec

\* However many handlers answer at once, whatever they are asked for and
\* whichever requests fail, the ID of the folder is read without its lock only
\* when nobody is about to write it (client.go:125).
THEOREM HandlersReadFolderSafely == Spec => []NobodyWritesUnderRead
  BY AnswersFollowFolder, FolderIsReadSafely

\* For the same handlers GetMusicFolderID is one atomic step, which fails for
\* nobody once the ID is known.
THEOREM HandlersAskAtomically == Spec => ImplementsFolderAnswers
  BY AnswersFollowFolder, FolderIsAtomic

----------------------------------------------------------------------------
(* Sums of lengths.                                                        *)

\* The sums of the first lengths, one by one.
LEMMA SumSteps ==
    ASSUME NEW N \in Nat, NEW lengths \in [1..N -> Nat]
    PROVE  \E f \in [0..N -> Nat] :
              /\ f[0] = 0
              /\ \A i \in 1..N : f[i] = f[i - 1] + lengths[i]
              /\ SumOf(lengths) = f[N]
<1> DEFINE step == [i \in 1..N |-> [sum \in Nat |-> sum + lengths[i]]]
<1>1. step \in [1..N -> [Nat -> Nat]]
  <2>1. \A i \in 1..N, sum \in Nat : sum + lengths[i] \in Nat
    OBVIOUS
  <2> QED
    BY <2>1
<1>2. \A i \in 1..N, sum \in Nat : step[i][sum] = sum + lengths[i]
  OBVIOUS
<1>3. \E h \in [SUBSET (1..N) -> Nat] : IsFold(h, 0, step, N)
  <2> HIDE DEF step
  <2> QED
    BY <1>1, FoldExists
<1>4. PICK h \in [SUBSET (1..N) -> Nat] : IsFold(h, 0, step, N)
  BY <1>3
<1>5. h = [s \in SUBSET (1..N) |->
             IF s = {} THEN 0 ELSE h[s \ {Max(s)}] + lengths[Max(s)]]
  <2> HIDE DEF step
  <2>1. h = [s \in SUBSET (1..N) |-> h[s]]
    OBVIOUS
  <2>2. ASSUME NEW s \in SUBSET (1..N)
        PROVE  h[s] = IF s = {} THEN 0 ELSE h[s \ {Max(s)}] + lengths[Max(s)]
    <3>1. CASE s = {}
      BY <1>4, <3>1 DEF IsFold
    <3>2. CASE s # {}
      <4>1. Max(s) \in 1..N
        BY <3>2, LargestOf
      <4>2. h[s \ {Max(s)}] \in Nat
        OBVIOUS
      <4>3. h[s] = step[Max(s)][h[s \ {Max(s)}]]
        BY <1>4, <3>2 DEF IsFold
      <4> QED
        BY <1>2, <3>2, <4>1, <4>2, <4>3
    <3> QED
      BY <3>1, <3>2
  <2> QED
    BY <2>1, <2>2, Zenon
<1>6. DOMAIN lengths = 1..N
  OBVIOUS
<1>7. \E iter :
         /\ SumOf(lengths) = iter[DOMAIN lengths]
         /\ iter = [s \in SUBSET DOMAIN lengths |->
                      IF s = {} THEN 0 ELSE iter[s \ {Max(s)}] + lengths[Max(s)]]
  <2>1. \E iter : iter = [s \in SUBSET DOMAIN lengths |->
                      IF s = {} THEN 0 ELSE iter[s \ {Max(s)}] + lengths[Max(s)]]
    BY <1>5, <1>6
  <2> QED
    BY <2>1, Zenon DEF SumOf, FoldLeft, MapThenFoldSet
<1>8. PICK iter :
         /\ SumOf(lengths) = iter[1..N]
         /\ iter = [s \in SUBSET (1..N) |->
                      IF s = {} THEN 0 ELSE iter[s \ {Max(s)}] + lengths[Max(s)]]
  BY <1>6, <1>7
<1>9. \A s \in SUBSET (1..N) :
         iter[s] = IF s = {} THEN 0 ELSE iter[s \ {Max(s)}] + lengths[Max(s)]
  BY <1>8, Zenon
<1> DEFINE f == [i \in 0..N |-> iter[1..i]]
           Good == {i \in 0..N : f[i] \in Nat}
<1>10. f[0] = 0
  <2>1. 1..0 = {} /\ 0 \in 0..N
    OBVIOUS
  <2>2. iter[{}] = 0
    BY <1>9, Zenon
  <2> QED
    BY <2>1, <2>2
<1>11. ASSUME NEW i \in 1..N PROVE f[i] = f[i - 1] + lengths[i]
  <2>0. i \in Nat \ {0}
    OBVIOUS
  <2>1. 1..i # {} /\ Max(1..i) = i /\ (1..i) \ {i} = 1..i-1
    BY <2>0, LargestUpTo, Zenon
  <2>2. 1..i \in SUBSET (1..N) /\ i \in 0..N /\ i - 1 \in 0..N
    OBVIOUS
  <2>3. iter[1..i] = iter[1..i-1] + lengths[i]
    BY <1>9, <2>1, <2>2, Zenon
  <2> QED
    BY <2>2, <2>3
<1>12. \A i \in 0..N : i \in Good
  <2>1. 0 \in Good
    BY <1>10
  <2>2. ASSUME NEW i \in 1..N, i - 1 \in Good PROVE i \in Good
    <3> HIDE DEF f
    <3> QED
      BY <1>11, <2>2
  <2> HIDE DEF Good
  <2> QED
    BY <2>1, <2>2, InductionUpTo
<1>13. f \in [0..N -> Nat]
  <2>1. \A i \in 0..N : f[i] \in Nat
    BY <1>12
  <2> QED
    BY <2>1
<1>14. SumOf(lengths) = f[N]
  <2>1. N \in 0..N
    OBVIOUS
  <2> QED
    BY <1>8, <2>1, Zenon
<1> QED
  <2> HIDE DEF f
  <2> QED
    BY <1>10, <1>11, <1>13, <1>14

Blocks == [shows : Seq(Albums), length : Nat]
Texts == Seq(Blocks)

LEMMA TextShape ==
    ASSUME NEW text \in Texts
    PROVE  /\ Len(text) \in Nat
           /\ DOMAIN text = 1..Len(text)
           /\ \A i \in 1..Len(text) :
                 /\ text[i] \in Blocks
                 /\ text[i].shows \in Seq(Albums)
                 /\ text[i].length \in Nat
<1>1. Len(text) \in Nat /\ DOMAIN text = 1..Len(text)
  BY DEF Texts
<1>2. \A i \in 1..Len(text) : text[i] \in Blocks
  BY DEF Texts
<1>3. \A b \in Blocks : b.shows \in Seq(Albums) /\ b.length \in Nat
  BY DEF Blocks
<1> QED
  BY <1>1, <1>2, <1>3

LEMMA SumIsNat ==
    ASSUME NEW lengths \in Seq(Nat)
    PROVE  SumOf(lengths) \in Nat
<1>1. Len(lengths) \in Nat /\ lengths \in [1..Len(lengths) -> Nat]
  OBVIOUS
<1> DEFINE N == Len(lengths)
<1>2. PICK f \in [0..N -> Nat] : SumOf(lengths) = f[N]
  <2> HIDE DEF N
  <2> QED
    BY <1>1, SumSteps DEF N
<1>3. N \in 0..N
  BY <1>1
<1> QED
  BY <1>2, <1>3

LEMMA SumOfOne ==
    ASSUME NEW n \in Nat
    PROVE  SumOf(<<n>>) = n
<1>1. <<n>> \in [1..1 -> Nat] /\ 1 \in Nat
  OBVIOUS
<1>2. PICK f \in [0..1 -> Nat] :
         /\ f[0] = 0
         /\ \A i \in 1..1 : f[i] = f[i - 1] + <<n>>[i]
         /\ SumOf(<<n>>) = f[1]
  BY <1>1, SumSteps
<1>3. f[1] = f[0] + n
  BY <1>2
<1> QED
  BY <1>2, <1>3

LEMMA LengthIsInt ==
    ASSUME NEW text \in Texts
    PROVE  Length(text) \in Int
<1>1. Lengths(text) \in Seq(Nat)
  <2>1. /\ Len(text) \in Nat
        /\ DOMAIN text = 1..Len(text)
        /\ \A i \in 1..Len(text) : text[i].length \in Nat
    BY TextShape
  <2>2. [i \in 1..Len(text) |-> text[i].length] \in Seq(Nat)
    BY <2>1, IsASeq
  <2> QED
    BY <2>1, <2>2 DEF Lengths
<1>2. SumOf(Lengths(text)) \in Nat
  BY <1>1, SumIsNat
<1>3. Len(text) \in Nat
  BY DEF Texts
<1> QED
  BY <1>2, <1>3 DEF Length, Separator

LEMMA LengthOfOne ==
    ASSUME NEW block \in Blocks
    PROVE  Length(<<block>>) = block.length
<1>1. block.length \in Nat
  BY DEF Blocks
<1>2. Lengths(<<block>>) = <<block.length>> /\ Len(<<block>>) = 1
  BY DEF Lengths
<1>3. SumOf(<<block.length>>) = block.length
  BY <1>1, SumOfOne
<1> QED
  BY <1>1, <1>2, <1>3 DEF Length, Separator

----------------------------------------------------------------------------
(* Concatenations.                                                         *)

Associates(S) == \A x, y, z \in Seq(S) : (x \o y) \o z = x \o (y \o z)

LEMMA Associative == \A S : Associates(S)
  BY DEF Associates

\* f goes through the concatenations of the first sequences.
Concatenates(f, seqs) ==
    /\ f[0] = <<>>
    /\ \A i \in 1..Len(seqs) : f[i] = f[i - 1] \o seqs[i]

LEMMA ConcatenatesType ==
    ASSUME NEW S, NEW seqs \in Seq(Seq(S)), NEW f, Concatenates(f, seqs)
    PROVE  \A i \in 0..Len(seqs) : f[i] \in Seq(S)
<1> DEFINE Good == {i \in 0..Len(seqs) : f[i] \in Seq(S)}
<1>0. Len(seqs) \in Nat
  OBVIOUS
<1>1. 0 \in Good
  <2>1. f[0] = <<>> /\ <<>> \in Seq(S)
    BY DEF Concatenates
  <2>2. 0 \in 0..Len(seqs)
    BY <1>0
  <2> QED
    BY <2>1, <2>2, Zenon
<1>2. ASSUME NEW i \in 1..Len(seqs), i - 1 \in Good PROVE i \in Good
  <2>1. seqs[i] \in Seq(S) /\ f[i - 1] \in Seq(S)
    BY <1>2
  <2>2. f[i - 1] \o seqs[i] \in Seq(S)
    BY <2>1, ConcatProperties
  <2>3. i \in 0..Len(seqs)
    BY <1>0
  <2> QED
    BY <2>2, <2>3, Zenon DEF Concatenates
<1>3. \A i \in 0..Len(seqs) : i \in Good
  <2> HIDE DEF Good
  <2> QED
    BY <1>0, <1>1, <1>2, InductionUpTo
<1> QED
  BY <1>3, Zenon

LEMMA ConcatenationExists ==
    ASSUME NEW S, NEW seqs \in Seq(Seq(S))
    PROVE  \E f \in [0..Len(seqs) -> Seq(S)] : Concatenates(f, seqs)
<1> DEFINE N == Len(seqs)
           step == [i \in 1..N |-> [s \in Seq(S) |-> s \o seqs[i]]]
<1>1. N \in Nat /\ <<>> \in Seq(S)
  OBVIOUS
<1>2. \A i \in 1..N, s \in Seq(S) : s \o seqs[i] \in Seq(S)
  <2> TAKE i \in 1..N, s \in Seq(S)
  <2>1. seqs[i] \in Seq(S)
    OBVIOUS
  <2> QED
    BY <2>1, ConcatProperties
<1>3. step \in [1..N -> [Seq(S) -> Seq(S)]]
  <2> HIDE DEF N
  <2> QED
    BY <1>2
<1>4. \A i \in 1..N, s \in Seq(S) : step[i][s] = s \o seqs[i]
  <2> HIDE DEF N
  <2> QED
    OBVIOUS
<1>5. PICK f \in [0..N -> Seq(S)] : Follows(f, <<>>, step, N)
  <2> HIDE DEF step, N
  <2> QED
    BY <1>1, <1>3, RecursionExists
<1>6. Concatenates(f, seqs)
  <2> HIDE DEF step
  <2>1. f[0] = <<>>
    BY <1>5 DEF Follows
  <2>2. ASSUME NEW i \in 1..N PROVE f[i] = f[i - 1] \o seqs[i]
    <3>0. i - 1 \in 0..N
      BY <1>1
    <3>1. f[i - 1] \in Seq(S)
      BY <3>0, Zenon
    <3> QED
      BY <1>4, <1>5, <3>1, Zenon DEF Follows
  <2> QED
    BY <2>1, <2>2 DEF Concatenates
<1> QED
  BY <1>5, <1>6

LEMMA ConcatenationIsUnique ==
    ASSUME NEW S, NEW seqs \in Seq(Seq(S)), NEW f, Concatenates(f, seqs),
           NEW g, Concatenates(g, seqs)
    PROVE  f[Len(seqs)] = g[Len(seqs)]
<1> DEFINE Good == {i \in 0..Len(seqs) : f[i] = g[i]}
<1>0. Len(seqs) \in Nat
  OBVIOUS
<1>1. 0 \in Good
  BY <1>0 DEF Concatenates
<1>2. ASSUME NEW i \in 1..Len(seqs), i - 1 \in Good PROVE i \in Good
  <2>1. i \in 0..Len(seqs)
    BY <1>0
  <2> QED
    BY <1>2, <2>1, Zenon DEF Concatenates
<1>3. \A i \in 0..Len(seqs) : i \in Good
  <2> HIDE DEF Good
  <2> QED
    BY <1>0, <1>1, <1>2, InductionUpTo
<1> QED
  BY <1>0, <1>3

LEMMA FlattenIs ==
    ASSUME NEW S, NEW seqs \in Seq(Seq(S)), NEW f, Concatenates(f, seqs)
    PROVE  FlattenSeq(seqs) = f[Len(seqs)]
<1> DEFINE N == Len(seqs)
<1>0. N \in Nat
  OBVIOUS
<1>1. CASE N = 0
  BY <1>1 DEF FlattenSeq, Concatenates
<1>2. CASE N # 0
  <2>1. PICK g \in [0..N -> Seq(S)] : Concatenates(g, seqs)
    BY ConcatenationExists
  <2> DEFINE h == [i \in 1..N |-> g[i]]
  <2>2. ASSUME NEW i \in 1..N
        PROVE  h[i] = IF i = 1 THEN seqs[i] ELSE h[i-1] \o seqs[i]
    <3>1. h[i] = g[i - 1] \o seqs[i]
      BY <2>1 DEF Concatenates
    <3>2. CASE i = 1
      <4>1. g[i - 1] = <<>>
        BY <2>1, <3>2 DEF Concatenates
      <4>2. seqs[i] \in Seq(S)
        OBVIOUS
      <4> QED
        BY <3>1, <3>2, <4>1, <4>2, ConcatEmptySeq
    <3>3. CASE i # 1
      <4>1. i - 1 \in 1..N
        BY <1>0, <3>3
      <4> HIDE DEF N
      <4>2. h[i - 1] = g[i - 1]
        BY <4>1
      <4> QED
        BY <3>1, <3>3, <4>2
    <3> QED
      BY <3>2, <3>3
  <2>3. h = [i \in 1..N |-> IF i = 1 THEN seqs[i] ELSE h[i-1] \o seqs[i]]
    <3>1. h = [i \in 1..N |-> h[i]]
      OBVIOUS
    <3> HIDE DEF h
    <3> QED
      BY <2>2, <3>1, Zenon
  <2>4. \E iter : /\ FlattenSeq(seqs) = iter[Len(seqs)]
                  /\ iter = [i \in 1..Len(seqs) |->
                         IF i = 1 THEN seqs[i] ELSE iter[i-1] \o seqs[i]]
    <3>1. \E iter : iter = [i \in 1..Len(seqs) |->
                         IF i = 1 THEN seqs[i] ELSE iter[i-1] \o seqs[i]]
      BY <2>3, Zenon
    <3> QED
      BY <1>2, <3>1, Zenon DEF FlattenSeq
  <2>5. PICK iter : /\ FlattenSeq(seqs) = iter[N]
                    /\ iter = [i \in 1..N |->
                         IF i = 1 THEN seqs[i] ELSE iter[i-1] \o seqs[i]]
    BY <2>4, Zenon
  <2> DEFINE k == [i \in 0..N |-> IF i = 0 THEN <<>> ELSE iter[i]]
  <2>6. Concatenates(k, seqs)
    <3>1. k[0] = <<>>
      BY <1>0
    <3>2. ASSUME NEW i \in 1..N PROVE k[i] = k[i - 1] \o seqs[i]
      <4>1. iter[i] = IF i = 1 THEN seqs[i] ELSE iter[i-1] \o seqs[i]
        BY <2>5, Zenon
      <4>2. k[i] = iter[i]
        BY <1>0
      <4>3. CASE i = 1
        <5>1. seqs[i] \in Seq(S) /\ k[i - 1] = <<>>
          BY <1>0, <4>3
        <5> HIDE DEF k
        <5> QED
          BY <4>1, <4>2, <4>3, <5>1, ConcatEmptySeq
      <4>4. CASE i # 1
        <5>1. k[i - 1] = iter[i - 1]
          BY <1>0, <4>4
        <5> HIDE DEF k
        <5> QED
          BY <4>1, <4>2, <4>4, <5>1
      <4> QED
        BY <4>3, <4>4
    <3> HIDE DEF k
    <3> QED
      BY <3>1, <3>2 DEF Concatenates
  <2>7. k[N] = iter[N]
    BY <1>0, <1>2
  <2>8. k[N] = f[N]
    <3> HIDE DEF k
    <3> QED
      BY <2>6, ConcatenationIsUnique
  <2> HIDE DEF k
  <2> QED
    BY <2>5, <2>7, <2>8
<1> QED
  BY <1>1, <1>2

LEMMA FlattenType ==
    ASSUME NEW S, NEW seqs \in Seq(Seq(S))
    PROVE  FlattenSeq(seqs) \in Seq(S)
<1>1. PICK f \in [0..Len(seqs) -> Seq(S)] : Concatenates(f, seqs)
  BY ConcatenationExists
<1>2. Len(seqs) \in 0..Len(seqs)
  OBVIOUS
<1>3. f[Len(seqs)] \in Seq(S)
  BY <1>2, Zenon
<1> QED
  BY <1>1, <1>3, FlattenIs

LEMMA FlattenNone == FlattenSeq(<<>>) = <<>>
  BY DEF FlattenSeq

LEMMA FlattenAppend ==
    ASSUME NEW S, NEW seqs \in Seq(Seq(S)), NEW last \in Seq(S)
    PROVE  FlattenSeq(Append(seqs, last)) = FlattenSeq(seqs) \o last
<1> DEFINE all == Append(seqs, last)
<1>1. /\ Len(seqs) \in Nat
      /\ all \in Seq(Seq(S))
      /\ Len(all) = Len(seqs) + 1
      /\ \A i \in 1..Len(seqs) : all[i] = seqs[i]
      /\ all[Len(seqs) + 1] = last
  <2>1. Len(seqs) \in Nat
    OBVIOUS
  <2> QED
    BY <2>1, AppendProperties
<1> HIDE DEF all
<1>2. PICK f \in [0..Len(all) -> Seq(S)] : Concatenates(f, all)
  BY <1>1, ConcatenationExists
<1>3. f[0] = <<>> /\ \A i \in 1..Len(all) : f[i] = f[i - 1] \o all[i]
  BY <1>2 DEF Concatenates
<1>4. \A i \in 1..Len(seqs) : i \in 1..Len(all)
  BY <1>1
<1>5. Concatenates(f, seqs)
  BY <1>1, <1>3, <1>4, Zenon DEF Concatenates
<1>6. FlattenSeq(all) = f[Len(all)] /\ FlattenSeq(seqs) = f[Len(seqs)]
  BY <1>1, <1>2, <1>5, FlattenIs
<1>7. Len(all) \in 1..Len(all) /\ Len(all) - 1 = Len(seqs)
  BY <1>1
<1>8. f[Len(all)] = f[Len(all) - 1] \o all[Len(all)]
  BY <1>3, <1>7, Zenon
<1>9. f[Len(all)] = f[Len(seqs)] \o last
  BY <1>1, <1>7, <1>8
<1> QED
  BY <1>6, <1>9 DEF all

LEMMA FlattenOne ==
    ASSUME NEW S, NEW only \in Seq(S)
    PROVE  FlattenSeq(<<only>>) = only
<1>1. <<>> \in Seq(Seq(S)) /\ <<only>> = Append(<<>>, only)
  OBVIOUS
<1>2. FlattenSeq(<<only>>) = <<>> \o only
  BY <1>1, FlattenAppend, FlattenNone
<1> QED
  BY <1>2, ConcatEmptySeq

LEMMA FlattenTail ==
    ASSUME NEW S, NEW seqs \in Seq(Seq(S)), seqs # <<>>
    PROVE  FlattenSeq(seqs) = Head(seqs) \o FlattenSeq(Tail(seqs))
<1> DEFINE tail == Tail(seqs)
           first == Head(seqs)
<1>1. /\ first \in Seq(S)
      /\ tail \in Seq(Seq(S))
      /\ Len(tail) = Len(seqs) - 1
      /\ \A i \in 1..Len(tail) : tail[i] = seqs[i + 1]
  BY HeadTailProperties
<1>2. Len(seqs) \in Nat \ {0} /\ first = seqs[1]
  BY EmptySeq
<1> HIDE DEF tail, first
<1>3. PICK f \in [0..Len(seqs) -> Seq(S)] : Concatenates(f, seqs)
  BY ConcatenationExists
<1>4. PICK g \in [0..Len(tail) -> Seq(S)] : Concatenates(g, tail)
  BY <1>1, ConcatenationExists
<1>5. /\ f[0] = <<>> /\ \A i \in 1..Len(seqs) : f[i] = f[i - 1] \o seqs[i]
      /\ g[0] = <<>> /\ \A i \in 1..Len(tail) : g[i] = g[i - 1] \o tail[i]
  BY <1>3, <1>4 DEF Concatenates
<1>6. \A i \in 1..Len(tail) : tail[i] \in Seq(S)
  BY <1>1, ElementOfSeq
<1>7. \A i \in 0..Len(tail) : g[i] \in Seq(S)
  BY Zenon
<1>8. Len(tail) \in Nat
  BY <1>1, <1>2
<1> DEFINE Good == {i \in 0..Len(tail) : f[i + 1] = first \o g[i]}
<1>9. 0 \in Good
  <2>1. 0 \in 0..Len(tail) /\ 1 \in 1..Len(seqs) /\ 0 + 1 = 1 /\ 1 - 1 = 0
    BY <1>2, <1>8
  <2>2. f[1] = f[0] \o seqs[1]
    BY <1>5, <2>1
  <2>3. f[1] = first \o g[0]
    BY <1>1, <1>2, <1>5, <2>2, ConcatEmptySeq
  <2> QED
    BY <2>1, <2>3
<1>10. ASSUME NEW i \in 1..Len(tail), i - 1 \in Good PROVE i \in Good
  <2>1. /\ i \in 0..Len(tail) /\ i + 1 \in 1..Len(seqs)
        /\ (i + 1) - 1 = i /\ (i - 1) + 1 = i /\ i - 1 \in 0..Len(tail)
    BY <1>1, <1>2, <1>8
  <2>2. f[i + 1] = f[i] \o seqs[i + 1]
    BY <1>5, <2>1
  <2>3. f[i] = first \o g[i - 1]
    BY <1>10, <2>1
  <2>4. f[i + 1] = (first \o g[i - 1]) \o tail[i]
    BY <1>1, <2>2, <2>3
  <2>5. g[i - 1] \in Seq(S) /\ tail[i] \in Seq(S)
    BY <1>6, <1>7, <2>1
  <2>6. f[i + 1] = first \o (g[i - 1] \o tail[i])
    <3>1. Associates(S)
      BY Associative
    <3> QED
      BY <1>1, <2>4, <2>5, <3>1, Zenon DEF Associates
  <2> QED
    BY <1>5, <2>1, <2>6
<1>11. \A i \in 0..Len(tail) : i \in Good
  <2> HIDE DEF Good
  <2> QED
    BY <1>8, <1>9, <1>10, InductionUpTo
<1>12. Len(tail) \in Good /\ Len(tail) + 1 = Len(seqs)
  <2> HIDE DEF Good
  <2> QED
    BY <1>1, <1>2, <1>8, <1>11
<1>13. f[Len(seqs)] = first \o g[Len(tail)]
  BY <1>12
<1>14. FlattenSeq(seqs) = f[Len(seqs)]
  BY <1>3, FlattenIs
<1>15. FlattenSeq(tail) = g[Len(tail)]
  BY <1>1, <1>4, FlattenIs
<1> QED
  BY <1>13, <1>14, <1>15 DEF tail, first

----------------------------------------------------------------------------
(* What a text shows, and what its chunks show.                            *)

Displayed(chunks) == FlattenSeq([i \in DOMAIN chunks |-> Shows(chunks[i])])

LEMMA ShownBlocks ==
    ASSUME NEW text \in Texts
    PROVE  [i \in DOMAIN text |-> text[i].shows] \in Seq(Seq(Albums))
<1>1. \A i \in 1..Len(text) : text[i].shows \in Seq(Albums)
  BY TextShape
<1>2. Len(text) \in Nat /\ DOMAIN text = 1..Len(text)
  BY TextShape
<1>3. [i \in 1..Len(text) |-> text[i].shows] \in Seq(Seq(Albums))
  BY <1>1, <1>2, IsASeq
<1> QED
  BY <1>2, <1>3

LEMMA ShowsType ==
    ASSUME NEW text \in Texts
    PROVE  Shows(text) \in Seq(Albums)
  BY ShownBlocks, FlattenType DEF Shows

LEMMA TextAppend ==
    ASSUME NEW text \in Texts, NEW block \in Blocks
    PROVE  /\ Append(text, block) \in Texts
           /\ Append(text, block) # <<>>
           /\ Len(Append(text, block)) = Len(text) + 1
           /\ DOMAIN Append(text, block) = 1 .. Len(text) + 1
           /\ \A i \in 1..Len(text) : Append(text, block)[i] = text[i]
           /\ Append(text, block)[Len(text) + 1] = block
<1>1. /\ Append(text, block) \in Texts
      /\ Len(Append(text, block)) = Len(text) + 1
      /\ \A i \in 1..Len(text) : Append(text, block)[i] = text[i]
      /\ Append(text, block)[Len(text) + 1] = block
  BY AppendProperties DEF Texts
<1>2. Len(text) \in Nat
  BY TextShape
<1>3. DOMAIN Append(text, block) = 1 .. Len(text) + 1
  BY <1>1, TextShape
<1>4. Append(text, block) # <<>>
  BY <1>1, <1>2, EmptySeq
<1> QED
  BY <1>1, <1>3, <1>4

LEMMA ShowsAppend ==
    ASSUME NEW text \in Texts, NEW block \in Blocks
    PROVE  Shows(Append(text, block)) = Shows(text) \o block.shows
<1> DEFINE shown == [i \in DOMAIN text |-> text[i].shows]
           all == Append(text, block)
           allShown == [i \in DOMAIN all |-> all[i].shows]
<1>1. /\ shown \in Seq(Seq(Albums))
      /\ block.shows \in Seq(Albums)
  BY ShownBlocks DEF Blocks
<1>2. /\ Len(text) \in Nat
      /\ DOMAIN text = 1..Len(text)
      /\ DOMAIN all = 1..Len(text) + 1
      /\ \A i \in 1..Len(text) : all[i] = text[i]
      /\ all[Len(text) + 1] = block
  BY TextShape, TextAppend
<1>3. DOMAIN shown = 1..Len(text) /\ Len(shown) = Len(text)
  BY <1>1, <1>2
<1>4. allShown \in Seq(Seq(Albums))
  BY TextAppend, ShownBlocks
<1>5. DOMAIN allShown = 1..Len(text) + 1 /\ Len(allShown) = Len(text) + 1
  BY <1>2, <1>4
<1>6. \A i \in 1..Len(text) : allShown[i] = shown[i]
  BY <1>2
<1>7. allShown[Len(text) + 1] = block.shows
  BY <1>2
<1>8. /\ Append(shown, block.shows) \in Seq(Seq(Albums))
      /\ Len(Append(shown, block.shows)) = Len(text) + 1
      /\ \A i \in 1..Len(text) : Append(shown, block.shows)[i] = shown[i]
      /\ Append(shown, block.shows)[Len(text) + 1] = block.shows
  BY <1>1, <1>3, AppendProperties
<1>9. allShown = Append(shown, block.shows)
  <2> HIDE DEF shown, allShown
  <2>1. \A i \in 1..Len(text) + 1 : allShown[i] = Append(shown, block.shows)[i]
    BY <1>2, <1>6, <1>7, <1>8
  <2> QED
    BY <1>4, <1>5, <1>8, <2>1, SeqEqual
<1>10. FlattenSeq(Append(shown, block.shows)) = FlattenSeq(shown) \o block.shows
  <2> HIDE DEF shown
  <2> QED
    BY <1>1, FlattenAppend
<1> QED
  BY <1>9, <1>10 DEF Shows

LEMMA ShowsNone == Shows(<<>>) = <<>> /\ Displayed(<<>>) = <<>>
<1>1. /\ [i \in DOMAIN <<>> |-> <<>>[i].shows] = <<>>
      /\ [i \in DOMAIN <<>> |-> Shows(<<>>[i])] = <<>>
  OBVIOUS
<1> QED
  BY <1>1, FlattenNone DEF Shows, Displayed

LEMMA ShowsOne ==
    ASSUME NEW block \in Blocks
    PROVE  Shows(<<block>>) = block.shows
<1>1. <<>> \in Texts /\ <<block>> = Append(<<>>, block)
  BY DEF Texts
<1>2. Shows(<<block>>) = <<>> \o block.shows
  BY <1>1, ShowsAppend, ShowsNone
<1>3. block.shows \in Seq(Albums)
  BY DEF Blocks
<1> QED
  BY <1>2, <1>3, ConcatEmptySeq

LEMMA ShownChunks ==
    ASSUME NEW chunks \in Seq(Texts)
    PROVE  /\ [i \in DOMAIN chunks |-> Shows(chunks[i])] \in Seq(Seq(Albums))
           /\ Len([i \in DOMAIN chunks |-> Shows(chunks[i])]) = Len(chunks)
<1>1. /\ Len(chunks) \in Nat
      /\ DOMAIN chunks = 1..Len(chunks)
      /\ \A i \in 1..Len(chunks) : chunks[i] \in Texts
  BY LenProperties, ElementOfSeq
<1>2. \A i \in 1..Len(chunks) : Shows(chunks[i]) \in Seq(Albums)
  BY <1>1, ShowsType
<1>3. [i \in 1..Len(chunks) |-> Shows(chunks[i])] \in Seq(Seq(Albums))
  BY <1>1, <1>2, IsASeq
<1>4. Len([i \in 1..Len(chunks) |-> Shows(chunks[i])]) = Len(chunks)
  BY <1>1, <1>3
<1> QED
  BY <1>1, <1>3, <1>4

LEMMA DisplayedType ==
    ASSUME NEW chunks \in Seq(Texts)
    PROVE  Displayed(chunks) \in Seq(Albums)
  BY ShownChunks, FlattenType DEF Displayed

LEMMA DisplayedAppend ==
    ASSUME NEW chunks \in Seq(Texts), NEW text \in Texts
    PROVE  Displayed(Append(chunks, text)) = Displayed(chunks) \o Shows(text)
<1> DEFINE shown == [i \in DOMAIN chunks |-> Shows(chunks[i])]
           all == Append(chunks, text)
           allShown == [i \in DOMAIN all |-> Shows(all[i])]
<1>1. /\ shown \in Seq(Seq(Albums)) /\ Len(shown) = Len(chunks)
      /\ Shows(text) \in Seq(Albums)
  BY ShownChunks, ShowsType
<1>2. /\ Len(chunks) \in Nat
      /\ DOMAIN chunks = 1..Len(chunks)
  BY LenProperties
<1>3. /\ all \in Seq(Texts)
      /\ Len(all) = Len(chunks) + 1
      /\ \A i \in 1..Len(chunks) : all[i] = chunks[i]
      /\ all[Len(chunks) + 1] = text
  BY AppendProperties
<1>4. allShown \in Seq(Seq(Albums)) /\ Len(allShown) = Len(chunks) + 1
  BY <1>3, ShownChunks
<1>5. DOMAIN all = 1..Len(chunks) + 1
  BY <1>3, LenProperties
<1>6. \A i \in 1..Len(chunks) : allShown[i] = shown[i]
  <2>1. \A i \in 1..Len(chunks) : i \in 1..Len(chunks) + 1
    BY <1>2
  <2> QED
    BY <1>2, <1>3, <1>5, <2>1, Zenon
<1>7. allShown[Len(chunks) + 1] = Shows(text)
  <2>1. Len(chunks) + 1 \in 1..Len(chunks) + 1
    BY <1>2
  <2> QED
    BY <1>3, <1>5, <2>1, Zenon
<1>8. /\ Append(shown, Shows(text)) \in Seq(Seq(Albums))
      /\ Len(Append(shown, Shows(text))) = Len(chunks) + 1
      /\ \A i \in 1..Len(chunks) : Append(shown, Shows(text))[i] = shown[i]
      /\ Append(shown, Shows(text))[Len(chunks) + 1] = Shows(text)
  <2> HIDE DEF shown
  <2> QED
    BY <1>1, AppendProperties
<1>9. allShown = Append(shown, Shows(text))
  <2> HIDE DEF shown, allShown
  <2>1. \A i \in 1..Len(chunks) + 1 : allShown[i] = Append(shown, Shows(text))[i]
    <3> TAKE i \in 1..Len(chunks) + 1
    <3>1. i \in 1..Len(chunks) \/ i = Len(chunks) + 1
      BY <1>2
    <3> QED
      BY <1>6, <1>7, <1>8, <3>1, Zenon
  <2> QED
    BY <1>4, <1>8, <2>1, SeqEqual
<1>10. FlattenSeq(Append(shown, Shows(text))) = FlattenSeq(shown) \o Shows(text)
  <2> HIDE DEF shown
  <2> QED
    BY <1>1, FlattenAppend
<1> QED
  BY <1>9, <1>10 DEF Displayed

LEMMA DisplayedOne ==
    ASSUME NEW text \in Texts
    PROVE  Displayed(<<text>>) = Shows(text)
<1>1. <<>> \in Seq(Texts) /\ <<text>> = Append(<<>>, text)
  OBVIOUS
<1>2. Displayed(<<text>>) = <<>> \o Shows(text)
  BY <1>1, DisplayedAppend, ShowsNone
<1> QED
  BY <1>2, ShowsType, ConcatEmptySeq

LEMMA DisplayedTail ==
    ASSUME NEW chunks \in Seq(Texts), chunks # <<>>
    PROVE  /\ Head(chunks) \in Texts /\ Tail(chunks) \in Seq(Texts)
           /\ Displayed(chunks) = Shows(Head(chunks)) \o Displayed(Tail(chunks))
<1> DEFINE shown == [i \in DOMAIN chunks |-> Shows(chunks[i])]
           tail == Tail(chunks)
           tailShown == [i \in DOMAIN tail |-> Shows(tail[i])]
<1>1. shown \in Seq(Seq(Albums)) /\ Len(shown) = Len(chunks)
  BY ShownChunks
<1>2. /\ Len(chunks) \in Nat \ {0}
      /\ DOMAIN chunks = 1..Len(chunks)
      /\ Head(chunks) = chunks[1]
  BY EmptySeq, LenProperties
<1>3. /\ Head(chunks) \in Texts
      /\ tail \in Seq(Texts)
      /\ Len(tail) = Len(chunks) - 1
      /\ \A i \in 1..Len(tail) : tail[i] = chunks[i + 1]
  BY HeadTailProperties
<1>4. tailShown \in Seq(Seq(Albums)) /\ Len(tailShown) = Len(chunks) - 1
  BY <1>3, ShownChunks
<1>5. DOMAIN tail = 1..Len(tail)
  BY <1>3, LenProperties
<1>6. shown # <<>> /\ shown[1] = Shows(Head(chunks))
  <2>1. 1 \in 1..Len(chunks)
    BY <1>2
  <2>2. shown[1] = Shows(Head(chunks))
    BY <1>2, <2>1, Zenon
  <2> HIDE DEF shown
  <2> QED
    BY <1>1, <1>2, <2>2, EmptySeq
<1>7. /\ Head(shown) = shown[1]
      /\ Tail(shown) \in Seq(Seq(Albums))
      /\ Len(Tail(shown)) = Len(chunks) - 1
      /\ \A i \in 1..Len(Tail(shown)) : Tail(shown)[i] = shown[i + 1]
  <2> HIDE DEF shown
  <2> QED
    BY <1>1, <1>6, HeadTailProperties
<1>8. tailShown = Tail(shown)
  <2>1. \A i \in 1..Len(tail) : tailShown[i] = Tail(shown)[i]
    <3> TAKE i \in 1..Len(tail)
    <3>1. i \in 1..Len(Tail(shown)) /\ i + 1 \in 1..Len(chunks)
      BY <1>2, <1>3, <1>7
    <3>2. shown[i + 1] = Shows(chunks[i + 1])
      BY <1>2, <3>1, Zenon
    <3>3. tailShown[i] = Shows(chunks[i + 1])
      BY <1>3, <1>5, Zenon
    <3> HIDE DEF shown, tailShown
    <3> QED
      BY <1>7, <3>1, <3>2, <3>3
  <2> HIDE DEF shown, tailShown
  <2> QED
    BY <1>3, <1>4, <1>7, <2>1, SeqEqual
<1>9. FlattenSeq(shown) = Head(shown) \o FlattenSeq(Tail(shown))
  <2> HIDE DEF shown
  <2> QED
    BY <1>1, <1>6, FlattenTail
<1> QED
  BY <1>3, <1>6, <1>7, <1>8, <1>9 DEF Displayed

----------------------------------------------------------------------------
(* SplitMessage.                                                           *)

Splits == [chunks : Seq(Texts), current : Texts]

\* The message either fits, or is one block.
Fits(chunk) == Length(chunk) > MaxLength => Len(chunk) = 1

\* What the loop has taken so far.
Taken(split) == Displayed(split.chunks) \o Shows(split.current)

LEMMA RangeOfAppend ==
    ASSUME NEW S, NEW seq \in Seq(S), NEW last \in S
    PROVE  Range(Append(seq, last)) = Range(seq) \cup {last}
<1> DEFINE all == Append(seq, last)
<1>1. /\ Len(seq) \in Nat
      /\ DOMAIN seq = 1..Len(seq)
      /\ all \in Seq(S)
      /\ Len(all) = Len(seq) + 1
      /\ \A i \in 1..Len(seq) : all[i] = seq[i]
      /\ all[Len(seq) + 1] = last
  BY LenProperties, AppendProperties
<1>2. DOMAIN all = 1..Len(seq) + 1
  BY <1>1, LenProperties
<1> HIDE DEF all
<1>3. 1..Len(seq) + 1 = (1..Len(seq)) \cup {Len(seq) + 1}
  BY <1>1
<1> QED
  BY <1>1, <1>2, <1>3, Zenon DEF Range, all

LEMMA AddBlockCases ==
    ASSUME NEW split, NEW block \in Blocks
    PROVE  LET testChunk == Append(split.current, block)
               fits == Length(testChunk) + Separator <= MaxLength
               next == AddBlock(split, block)
           IN  \/ block.length = 0 /\ next = split
               \/ /\ block.length > 0 /\ fits
                  /\ next = [split EXCEPT !.current = testChunk]
               \/ /\ block.length > 0 /\ ~fits /\ split.current # <<>>
                  /\ next = [chunks |-> Append(split.chunks, split.current),
                             current |-> <<block>>]
               \/ /\ block.length > 0 /\ ~fits /\ split.current = <<>>
                  /\ next = [split EXCEPT
                             !.chunks = Append(@, <<ForceSplit(block)>>)]
<1> DEFINE testChunk == Append(split.current, block)
           fits == Length(testChunk) + Separator <= MaxLength
<1>1. block.length = 0 \/ (block.length > 0 /\ ~(block.length = 0))
  BY DEF Blocks
<1>2. CASE block.length = 0
  BY <1>2 DEF AddBlock
<1>3. CASE block.length > 0 /\ ~(block.length = 0) /\ fits
  BY <1>3 DEF AddBlock
<1>4. CASE block.length > 0 /\ ~(block.length = 0) /\ ~fits /\ split.current # <<>>
  BY <1>4 DEF AddBlock
<1>5. CASE block.length > 0 /\ ~(block.length = 0) /\ ~fits /\ split.current = <<>>
  BY <1>5 DEF AddBlock
<1> QED
  BY <1>1, <1>2, <1>3, <1>4, <1>5

LEMMA AddBlockType ==
    ASSUME NEW split \in Splits, NEW block \in Blocks
    PROVE  AddBlock(split, block) \in Splits
<1>1. split.chunks \in Seq(Texts) /\ split.current \in Texts
  BY DEF Splits
<1>2. Append(split.current, block) \in Texts
  BY <1>1, TextAppend
<1>3. <<block>> \in Texts /\ <<ForceSplit(block)>> \in Texts
  BY AnswersAssumption DEF ForceSplit, OutOfRange, EmptyBlock, Block, Texts, Blocks
<1>4. /\ Append(split.chunks, split.current) \in Seq(Texts)
      /\ Append(split.chunks, <<ForceSplit(block)>>) \in Seq(Texts)
  BY <1>1, <1>3, AppendProperties
<1>5. \/ AddBlock(split, block) = split
      \/ AddBlock(split, block) =
            [split EXCEPT !.current = Append(split.current, block)]
      \/ AddBlock(split, block) =
            [chunks |-> Append(split.chunks, split.current), current |-> <<block>>]
      \/ AddBlock(split, block) =
            [split EXCEPT !.chunks = Append(split.chunks, <<ForceSplit(block)>>)]
  BY AddBlockCases
<1>6. \A chunks \in Seq(Texts), current \in Texts :
         /\ [chunks |-> chunks, current |-> current] \in Splits
         /\ [split EXCEPT !.current = current] \in Splits
         /\ [split EXCEPT !.chunks = chunks] \in Splits
  BY DEF Splits
<1> QED
  BY <1>1, <1>2, <1>3, <1>4, <1>5, <1>6

LEMMA AddBlockFits ==
    ASSUME NEW split \in Splits, NEW block \in Blocks,
           \A chunk \in Range(split.chunks) : Fits(chunk), Fits(split.current)
    PROVE  /\ \A chunk \in Range(AddBlock(split, block).chunks) : Fits(chunk)
           /\ Fits(AddBlock(split, block).current)
<1> DEFINE next == AddBlock(split, block)
<1>1. split.chunks \in Seq(Texts) /\ split.current \in Texts
  BY DEF Splits
<1>2. Fits(<<block>>) /\ Fits(<<ForceSplit(block)>>)
  BY DEF Fits
<1>3. /\ Range(Append(split.chunks, split.current)) =
            Range(split.chunks) \cup {split.current}
      /\ Range(Append(split.chunks, <<ForceSplit(block)>>)) =
            Range(split.chunks) \cup {<<ForceSplit(block)>>}
  <2>1. <<ForceSplit(block)>> \in Texts
    BY AnswersAssumption DEF ForceSplit, OutOfRange, EmptyBlock, Block, Texts, Blocks
  <2> QED
    BY <1>1, <2>1, RangeOfAppend
<1>4. CASE next = split
  BY <1>4
<1>5. CASE /\ next = [split EXCEPT !.current = Append(split.current, block)]
           /\ Length(Append(split.current, block)) + Separator <= MaxLength
  <2>1. next.chunks = split.chunks /\ next.current = Append(split.current, block)
    BY <1>5 DEF Splits
  <2>2. Append(split.current, block) \in Texts
    BY <1>1, TextAppend
  <2>3. Fits(Append(split.current, block))
    BY <1>5, <2>2, LengthIsInt, AnswersAssumption DEF Fits, Separator
  <2> QED
    BY <2>1, <2>3
<1>6. CASE next = [chunks |-> Append(split.chunks, split.current),
                   current |-> <<block>>]
  BY <1>2, <1>3, <1>6
<1>7. CASE next = [split EXCEPT
                      !.chunks = Append(split.chunks, <<ForceSplit(block)>>)]
  <2>1. /\ next.chunks = Append(split.chunks, <<ForceSplit(block)>>)
        /\ next.current = split.current
    BY <1>7 DEF Splits
  <2> QED
    BY <1>2, <1>3, <2>1
<1>8. \/ next = split
      \/ /\ next = [split EXCEPT !.current = Append(split.current, block)]
         /\ Length(Append(split.current, block)) + Separator <= MaxLength
      \/ next = [chunks |-> Append(split.chunks, split.current),
                 current |-> <<block>>]
      \/ next = [split EXCEPT
                    !.chunks = Append(split.chunks, <<ForceSplit(block)>>)]
  BY AddBlockCases
<1> QED
  BY <1>4, <1>5, <1>6, <1>7, <1>8

\* Behind the first block nothing is cut, and every block is taken whole.
LEMMA AddBlockTakes ==
    ASSUME NEW split \in Splits, split.current # <<>>,
           NEW block \in Blocks, block.length = 0 => block.shows = <<>>
    PROVE  /\ AddBlock(split, block).current # <<>>
           /\ Taken(AddBlock(split, block)) = Taken(split) \o block.shows
<1> DEFINE next == AddBlock(split, block)
           told == Displayed(split.chunks)
           shown == Shows(split.current)
<1>1. /\ split.chunks \in Seq(Texts) /\ split.current \in Texts
      /\ block.length \in Nat /\ block.shows \in Seq(Albums)
  BY DEF Splits, Blocks
<1>2. told \in Seq(Albums) /\ shown \in Seq(Albums)
  BY <1>1, DisplayedType, ShowsType
<1>3. told \o shown \in Seq(Albums)
  BY <1>2, ConcatProperties
<1>4. CASE block.length = 0
  <2>1. next = split
    BY <1>4, AddBlockCases
  <2>2. Taken(split) \o block.shows = Taken(split)
    BY <1>3, <1>4, ConcatEmptySeq DEF Taken
  <2> QED
    BY <2>1, <2>2
<1>5. CASE /\ block.length > 0
           /\ next = [split EXCEPT !.current = Append(split.current, block)]
  <2>1. /\ next.chunks = split.chunks
        /\ next.current = Append(split.current, block)
    BY <1>5 DEF Splits
  <2>2. Taken(next) = told \o (shown \o block.shows)
    BY <1>1, <2>1, ShowsAppend DEF Taken
  <2>3. Append(split.current, block) # <<>>
    BY <1>1, TextAppend
  <2> HIDE DEF told, shown
  <2>4. told \o (shown \o block.shows) = (told \o shown) \o block.shows
    <3>1. Associates(Albums)
      BY Associative
    <3> QED
      BY <1>1, <1>2, <3>1, Zenon DEF Associates
  <2> QED
    BY <2>1, <2>2, <2>3, <2>4 DEF Taken, told, shown
<1>6. CASE next = [chunks |-> Append(split.chunks, split.current),
                   current |-> <<block>>]
  <2>1. next.chunks = Append(split.chunks, split.current) /\ next.current = <<block>>
    BY <1>6
  <2>2. Displayed(next.chunks) = told \o shown
    BY <1>1, <2>1, DisplayedAppend
  <2>3. Shows(next.current) = block.shows
    BY <2>1, ShowsOne
  <2>4. next.current # <<>>
    BY <2>1
  <2> QED
    BY <2>2, <2>3, <2>4 DEF Taken
<1>7. \/ block.length = 0
      \/ /\ block.length > 0
         /\ next = [split EXCEPT !.current = Append(split.current, block)]
      \/ next = [chunks |-> Append(split.chunks, split.current),
                 current |-> <<block>>]
  BY AddBlockCases
<1> QED
  BY <1>4, <1>5, <1>6, <1>7

Empty == [chunks |-> <<>>, current |-> <<>>]

\* The loop of SplitMessage, block by block.
LEMMA SplitSteps ==
    ASSUME NEW N \in Nat, NEW text \in [1..N -> Blocks]
    PROVE  \E f \in [0..N -> Splits] :
              /\ f[0] = Empty
              /\ \A i \in 1..N : f[i] = AddBlock(f[i - 1], text[i])
              /\ SplitMessage(text) =
                    IF Length(text) <= MaxLength THEN <<text>>
                    ELSE IF f[N].current = <<>> THEN f[N].chunks
                    ELSE Append(f[N].chunks, f[N].current)
<1> DEFINE step == [i \in 1..N |-> [split \in Splits |-> AddBlock(split, text[i])]]
<1>0. Empty \in Splits
  BY DEF Empty, Splits, Texts
<1>1. step \in [1..N -> [Splits -> Splits]]
  <2>1. \A i \in 1..N, split \in Splits : AddBlock(split, text[i]) \in Splits
    <3> TAKE i \in 1..N, split \in Splits
    <3>1. text[i] \in Blocks
      OBVIOUS
    <3> QED
      BY <3>1, AddBlockType
  <2> QED
    BY <2>1
<1>2. \A i \in 1..N, split \in Splits : step[i][split] = AddBlock(split, text[i])
  OBVIOUS
<1>3. \E h \in [SUBSET (1..N) -> Splits] : IsFold(h, Empty, step, N)
  <2> HIDE DEF step
  <2> QED
    BY <1>0, <1>1, FoldExists
<1>4. PICK h \in [SUBSET (1..N) -> Splits] : IsFold(h, Empty, step, N)
  BY <1>3
<1>5. h = [s \in SUBSET (1..N) |->
             IF s = {} THEN Empty ELSE AddBlock(h[s \ {Max(s)}], text[Max(s)])]
  <2> HIDE DEF step
  <2>1. h = [s \in SUBSET (1..N) |-> h[s]]
    OBVIOUS
  <2>2. ASSUME NEW s \in SUBSET (1..N)
        PROVE  h[s] = IF s = {} THEN Empty
                      ELSE AddBlock(h[s \ {Max(s)}], text[Max(s)])
    <3>1. CASE s = {}
      BY <1>4, <3>1 DEF IsFold
    <3>2. CASE s # {}
      <4>1. Max(s) \in 1..N
        BY <3>2, LargestOf
      <4>2. h[s \ {Max(s)}] \in Splits
        OBVIOUS
      <4>3. h[s] = step[Max(s)][h[s \ {Max(s)}]]
        BY <1>4, <3>2 DEF IsFold
      <4> QED
        BY <1>2, <3>2, <4>1, <4>2, <4>3
    <3> QED
      BY <3>1, <3>2
  <2> QED
    BY <2>1, <2>2, Zenon
<1>6. DOMAIN text = 1..N
  OBVIOUS
<1>7. \E iter :
         /\ SplitMessage(text) =
              IF Length(text) <= MaxLength THEN <<text>>
              ELSE IF iter[DOMAIN text].current = <<>> THEN iter[DOMAIN text].chunks
              ELSE Append(iter[DOMAIN text].chunks, iter[DOMAIN text].current)
         /\ iter = [s \in SUBSET DOMAIN text |->
                      IF s = {} THEN Empty
                      ELSE AddBlock(iter[s \ {Max(s)}], text[Max(s)])]
  <2>1. \E iter : iter = [s \in SUBSET DOMAIN text |->
                      IF s = {} THEN Empty
                      ELSE AddBlock(iter[s \ {Max(s)}], text[Max(s)])]
    BY <1>5, <1>6
  <2> QED
    BY <2>1, Zenon DEF SplitMessage, FoldLeft, MapThenFoldSet, Empty
<1>8. PICK iter :
         /\ SplitMessage(text) =
              IF Length(text) <= MaxLength THEN <<text>>
              ELSE IF iter[1..N].current = <<>> THEN iter[1..N].chunks
              ELSE Append(iter[1..N].chunks, iter[1..N].current)
         /\ iter = [s \in SUBSET (1..N) |->
                      IF s = {} THEN Empty
                      ELSE AddBlock(iter[s \ {Max(s)}], text[Max(s)])]
  BY <1>6, <1>7
<1>9. \A s \in SUBSET (1..N) :
         iter[s] = IF s = {} THEN Empty
                   ELSE AddBlock(iter[s \ {Max(s)}], text[Max(s)])
  BY <1>8, Zenon
<1> DEFINE f == [i \in 0..N |-> iter[1..i]]
           Good == {i \in 0..N : f[i] \in Splits}
<1>10. f[0] = Empty
  <2>1. 1..0 = {} /\ 0 \in 0..N
    OBVIOUS
  <2>2. iter[{}] = Empty
    BY <1>9, Zenon
  <2> QED
    BY <2>1, <2>2
<1>11. ASSUME NEW i \in 1..N PROVE f[i] = AddBlock(f[i - 1], text[i])
  <2>0. i \in Nat \ {0}
    OBVIOUS
  <2>1. 1..i # {} /\ Max(1..i) = i /\ (1..i) \ {i} = 1..i-1
    BY <2>0, LargestUpTo, Zenon
  <2>2. 1..i \in SUBSET (1..N) /\ i \in 0..N /\ i - 1 \in 0..N
    OBVIOUS
  <2>3. iter[1..i] = AddBlock(iter[1..i-1], text[i])
    BY <1>9, <2>1, <2>2, Zenon
  <2> QED
    BY <2>2, <2>3, Zenon
<1>12. \A i \in 0..N : i \in Good
  <2>1. 0 \in Good
    BY <1>0, <1>10
  <2>2. ASSUME NEW i \in 1..N, i - 1 \in Good PROVE i \in Good
    <3> HIDE DEF f
    <3>1. f[i - 1] \in Splits /\ text[i] \in Blocks /\ i \in 0..N
      BY <2>2
    <3>2. f[i] \in Splits
      BY <1>11, <3>1, AddBlockType
    <3> QED
      BY <3>1, <3>2
  <2> HIDE DEF Good
  <2> QED
    BY <2>1, <2>2, InductionUpTo
<1>13. f \in [0..N -> Splits]
  <2>1. \A i \in 0..N : f[i] \in Splits
    BY <1>12
  <2> QED
    BY <2>1
<1>14. f[N] = iter[1..N]
  <2>1. N \in 0..N
    OBVIOUS
  <2> QED
    BY <2>1, Zenon
<1>15. SplitMessage(text) =
          IF Length(text) <= MaxLength THEN <<text>>
          ELSE IF f[N].current = <<>> THEN f[N].chunks
          ELSE Append(f[N].chunks, f[N].current)
  BY <1>8, <1>14, Zenon
<1> QED
  <2> HIDE DEF f
  <2> QED
    BY <1>10, <1>11, <1>13, <1>15

LEMMA LengthOfNone == Length(<<>>) \in Int /\ Length(<<>>) < 0
<1>1. <<>> \in [1..0 -> Nat] /\ 0 \in Nat
  OBVIOUS
<1>2. SumOf(<<>>) = 0
  BY <1>1, SumSteps
<1>3. Lengths(<<>>) = <<>> /\ Len(<<>>) = 0
  BY DEF Lengths
<1> QED
  BY <1>2, <1>3 DEF Length, Separator

LEMMA SplitFits ==
    ASSUME NEW text \in Texts
    PROVE  /\ SplitMessage(text) \in Seq(Texts)
           /\ \A chunk \in Range(SplitMessage(text)) : Fits(chunk)
<1> DEFINE N == Len(text)
<1>1. N \in Nat /\ text \in [1..N -> Blocks]
  BY LenProperties DEF Texts
<1> HIDE DEF N
<1>2. PICK f \in [0..N -> Splits] :
         /\ f[0] = Empty
         /\ \A i \in 1..N : f[i] = AddBlock(f[i - 1], text[i])
         /\ SplitMessage(text) =
               IF Length(text) <= MaxLength THEN <<text>>
               ELSE IF f[N].current = <<>> THEN f[N].chunks
               ELSE Append(f[N].chunks, f[N].current)
  BY <1>1, SplitSteps
<1>3. \A i \in 0..N : f[i] \in Splits
  OBVIOUS
<1> DEFINE Good == {i \in 0..N : /\ \A chunk \in Range(f[i].chunks) : Fits(chunk)
                                 /\ Fits(f[i].current)}
<1>4. 0 \in Good
  <2>1. f[0].chunks = <<>> /\ f[0].current = <<>>
    BY <1>2 DEF Empty
  <2>2. Range(<<>>) = {}
    BY DEF Range
  <2>3. Fits(<<>>)
    BY LengthOfNone, AnswersAssumption DEF Fits
  <2>4. 0 \in 0..N
    BY <1>1
  <2> QED
    BY <2>1, <2>2, <2>3, <2>4
<1>5. ASSUME NEW i \in 1..N, i - 1 \in Good PROVE i \in Good
  <2>1. i \in 0..N /\ i - 1 \in 0..N /\ text[i] \in Blocks
    BY <1>1
  <2>2. f[i - 1] \in Splits /\ f[i] = AddBlock(f[i - 1], text[i])
    BY <1>2, <1>3, <2>1
  <2>3. /\ \A chunk \in Range(f[i - 1].chunks) : Fits(chunk)
        /\ Fits(f[i - 1].current)
    BY <1>5
  <2>4. /\ \A chunk \in Range(AddBlock(f[i - 1], text[i]).chunks) : Fits(chunk)
        /\ Fits(AddBlock(f[i - 1], text[i]).current)
    BY <2>1, <2>2, <2>3, AddBlockFits
  <2> QED
    BY <2>1, <2>2, <2>4
<1>6. N \in Good /\ N \in 0..N
  <2> HIDE DEF Good
  <2>1. \A i \in 0..N : i \in Good
    BY <1>1, <1>4, <1>5, InductionUpTo
  <2> QED
    BY <1>1, <2>1
<1>7. /\ f[N].chunks \in Seq(Texts) /\ f[N].current \in Texts
      /\ \A chunk \in Range(f[N].chunks) : Fits(chunk)
      /\ Fits(f[N].current)
  BY <1>3, <1>6 DEF Splits
<1>8. CASE Length(text) <= MaxLength
  <2>1. SplitMessage(text) = <<text>> /\ Range(<<text>>) = {text}
    BY <1>2, <1>8 DEF Range
  <2>2. Fits(text)
    BY <1>8, LengthIsInt, AnswersAssumption DEF Fits
  <2> QED
    BY <2>1, <2>2
<1>9. CASE ~(Length(text) <= MaxLength) /\ f[N].current = <<>>
  BY <1>2, <1>7, <1>9
<1>10. CASE ~(Length(text) <= MaxLength) /\ ~(f[N].current = <<>>)
  <2>1. SplitMessage(text) = Append(f[N].chunks, f[N].current)
    BY <1>2, <1>10
  <2>2. Append(f[N].chunks, f[N].current) \in Seq(Texts)
    BY <1>7, AppendProperties
  <2>3. Range(Append(f[N].chunks, f[N].current)) =
           Range(f[N].chunks) \cup {f[N].current}
    BY <1>7, RangeOfAppend
  <2> QED
    BY <1>7, <2>1, <2>2, <2>3
<1> QED
  BY <1>8, <1>9, <1>10

\* A text under a heading, whose empty blocks show nothing.
Headed(text) ==
    /\ text \in Texts
    /\ text # <<>>
    /\ text[1] = Intro
    /\ \A i \in 1..Len(text) : text[i].length = 0 => text[i].shows = <<>>

LEMMA IntroFits ==
    /\ Intro \in Blocks /\ Intro.shows = <<>>
    /\ Intro.length > 0 /\ ~(Intro.length = 0)
    /\ Length(<<Intro>>) + Separator <= MaxLength
<1>1. Intro \in Blocks /\ Intro.shows = <<>> /\ Intro.length = IntroSize
  BY AnswersAssumption DEF Intro, Block, Blocks, Separator
<1>2. Length(<<Intro>>) = IntroSize
  BY <1>1, LengthOfOne
<1> QED
  BY <1>1, <1>2, AnswersAssumption DEF Separator

\* The chunks of such a text show what the text shows: nothing is cut, dropped
\* or repeated.
LEMMA SplitShows ==
    ASSUME NEW text, Headed(text)
    PROVE  /\ SplitMessage(text) # <<>>
           /\ Displayed(SplitMessage(text)) = Shows(text)
<1> DEFINE N == Len(text)
           shown == [i \in DOMAIN text |-> text[i].shows]
<1>0. text \in Texts
  BY DEF Headed
<1>1. N \in Nat \ {0} /\ text \in [1..N -> Blocks]
  BY <1>0, LenProperties, EmptySeq DEF Texts, Headed
<1>2. shown \in Seq(Seq(Albums)) /\ Len(shown) = N
  BY <1>0, ShownBlocks, TextShape
<1>3. \A i \in 1..N : shown[i] = text[i].shows
  BY <1>0, TextShape
<1> HIDE DEF shown
<1>4. PICK g \in [0..N -> Seq(Albums)] : Concatenates(g, shown)
  BY <1>2, ConcatenationExists
<1>5. g[0] = <<>> /\ \A i \in 1..N : g[i] = g[i - 1] \o text[i].shows
  BY <1>2, <1>3, <1>4 DEF Concatenates
<1>6. Shows(text) = g[N]
  BY <1>2, <1>4, FlattenIs DEF Shows, shown
<1>7. \A i \in 1..N : text[i].length = 0 => text[i].shows = <<>>
  BY DEF Headed
<1> HIDE DEF N
<1>8. PICK f \in [0..N -> Splits] :
         /\ f[0] = Empty
         /\ \A i \in 1..N : f[i] = AddBlock(f[i - 1], text[i])
         /\ SplitMessage(text) =
               IF Length(text) <= MaxLength THEN <<text>>
               ELSE IF f[N].current = <<>> THEN f[N].chunks
               ELSE Append(f[N].chunks, f[N].current)
  BY <1>1, SplitSteps
<1>9. \A i \in 0..N : f[i] \in Splits
  OBVIOUS
<1> DEFINE Good == {i \in 0..N : i # 0 => /\ f[i].current # <<>>
                                         /\ Taken(f[i]) = g[i]}
<1>10. 0 \in Good
  BY <1>1
<1>11. ASSUME NEW i \in 1..N, i - 1 \in Good PROVE i \in Good
  <2>1. i \in 0..N /\ i - 1 \in 0..N /\ text[i] \in Blocks
    BY <1>1
  <2>2. /\ f[i] = AddBlock(f[i - 1], text[i])
        /\ g[i] = g[i - 1] \o text[i].shows
    BY <1>5, <1>8
  <2>3. CASE i = 1
    <3>1. f[0] = Empty /\ text[1] = Intro /\ f[1] = AddBlock(Empty, Intro)
      BY <1>8, <2>2, <2>3 DEF Headed
    <3>2. Append(Empty.current, Intro) = <<Intro>>
      BY DEF Empty
    <3>3. f[1] = [Empty EXCEPT !.current = <<Intro>>]
      BY <3>1, <3>2, IntroFits DEF AddBlock
    <3>4. f[1].chunks = <<>> /\ f[1].current = <<Intro>>
      BY <3>3 DEF Empty
    <3>5. Taken(f[1]) = <<>> \o <<>>
      BY <3>4, ShowsNone, ShowsOne, IntroFits DEF Taken
    <3>6. g[1] = <<>> \o <<>>
      BY <1>5, <2>2, <2>3, <3>1, IntroFits
    <3>7. <<Intro>> # <<>>
      OBVIOUS
    <3> QED
      BY <2>1, <2>3, <3>4, <3>5, <3>6, <3>7
  <2>4. CASE i # 1
    <3>1. f[i - 1].current # <<>> /\ Taken(f[i - 1]) = g[i - 1]
      <4>1. i - 1 # 0
        BY <2>4
      <4> QED
        BY <1>11, <4>1
    <3>2. f[i - 1] \in Splits
      BY <1>9, <2>1
    <3>3. /\ AddBlock(f[i - 1], text[i]).current # <<>>
          /\ Taken(AddBlock(f[i - 1], text[i])) =
                Taken(f[i - 1]) \o text[i].shows
      BY <1>7, <2>1, <3>1, <3>2, AddBlockTakes
    <3> QED
      BY <2>1, <2>2, <3>1, <3>3
  <2> QED
    BY <2>3, <2>4
<1>12. f[N].current # <<>> /\ Taken(f[N]) = g[N] /\ f[N] \in Splits
  <2>1. \A i \in 0..N : i \in Good
    <3>1. N \in Nat
      BY <1>1
    <3> HIDE DEF Good
    <3> QED
      BY <1>10, <1>11, <3>1, InductionUpTo
  <2>2. N \in Good /\ N # 0 /\ N \in 0..N
    BY <1>1, <2>1
  <2> QED
    BY <1>9, <2>2
<1>13. CASE Length(text) <= MaxLength
  <2>1. SplitMessage(text) = <<text>> /\ <<text>> # <<>>
    BY <1>8, <1>13
  <2> QED
    BY <1>0, <2>1, DisplayedOne
<1>14. CASE ~(Length(text) <= MaxLength)
  <2>1. SplitMessage(text) = Append(f[N].chunks, f[N].current)
    BY <1>8, <1>12, <1>14
  <2>2. f[N].chunks \in Seq(Texts) /\ f[N].current \in Texts
    BY <1>12 DEF Splits
  <2>3. Displayed(Append(f[N].chunks, f[N].current)) = Taken(f[N])
    BY <2>2, DisplayedAppend DEF Taken
  <2>4. Append(f[N].chunks, f[N].current) # <<>>
    <3>1. Len(Append(f[N].chunks, f[N].current)) = Len(f[N].chunks) + 1
      BY <2>2, AppendProperties
    <3>2. Len(f[N].chunks) \in Nat
      BY <2>2
    <3> QED
      BY <3>1, <3>2, EmptySeq
  <2> QED
    BY <1>6, <1>12, <2>1, <2>3, <2>4
<1> QED
  BY <1>13, <1>14

----------------------------------------------------------------------------
(* The texts of the formatters show the albums that they are made from.    *)

LEMMA IntroIsHeaded == Headed(<<Intro>>) /\ Shows(<<Intro>>) = <<>>
<1>1. <<Intro>> \in Texts /\ <<Intro>> # <<>> /\ <<Intro>>[1] = Intro
  BY IntroFits DEF Texts
<1>2. \A i \in 1..Len(<<Intro>>) : <<Intro>>[i].shows = <<>>
  BY IntroFits
<1>3. Shows(<<Intro>>) = <<>>
  BY IntroFits, ShowsOne
<1> QED
  BY <1>1, <1>2, <1>3 DEF Headed

LEMMA ResultsAreHeaded ==
    ASSUME NEW albums \in Seq(Albums), albums # <<>>
    PROVE  Headed(FormatResults(albums)) /\ Shows(FormatResults(albums)) = albums
<1> DEFINE sizes == [i \in DOMAIN albums |-> Size[albums[i]]]
           results == Block(albums, SumOf(sizes) + Len(albums))
<1>1. /\ Len(albums) \in Nat \ {0}
      /\ DOMAIN albums = 1..Len(albums)
      /\ \A i \in 1..Len(albums) : Size[albums[i]] \in Nat
  <2>1. \A i \in 1..Len(albums) : albums[i] \in Albums
    BY ElementOfSeq
  <2> QED
    BY <2>1, EmptySeq, LenProperties, AnswersAssumption
<1>2. SumOf(sizes) \in Nat
  <2>1. [i \in 1..Len(albums) |-> Size[albums[i]]] \in Seq(Nat)
    BY <1>1, IsASeq
  <2> QED
    BY <1>1, <2>1, SumIsNat
<1>3. /\ results \in Blocks /\ results.shows = albums
      /\ results.length \in Nat \ {0}
  BY <1>1, <1>2 DEF Block, Blocks
<1>4. FormatResults(albums) = <<Intro, results>>
  BY DEF FormatResults
<1> HIDE DEF results
<1>5. <<Intro, results>> = Append(<<Intro>>, results) /\ <<Intro>> \in Texts
  BY <1>3, IntroFits DEF Texts
<1>6. Shows(<<Intro, results>>) = <<>> \o albums
  BY <1>3, <1>5, IntroIsHeaded, ShowsAppend
<1>7. Headed(<<Intro, results>>)
  <2>1. <<Intro, results>> \in Texts
    BY <1>3, <1>5, TextAppend
  <2>2. \A i \in 1..2 : i = 1 \/ i = 2
    OBVIOUS
  <2>3. \A i \in 1..Len(<<Intro, results>>) :
           ~(<<Intro, results>>[i].length = 0)
    BY <1>3, <2>2, IntroFits
  <2> QED
    BY <2>1, <2>3 DEF Headed
<1> QED
  BY <1>4, <1>6, <1>7, ConcatEmptySeq

LEMMA ListIsHeaded ==
    ASSUME NEW albums \in Seq(Albums), albums # <<>>
    PROVE  /\ Headed(FormatAlbumList(albums))
           /\ Shows(FormatAlbumList(albums)) = albums
<1> DEFINE n == Len(albums)
           lines == [i \in DOMAIN albums |->
                        Block(<<albums[i]>>, Size[albums[i]])]
           front == <<Intro>> \o lines
           text == front \o <<EmptyBlock>>
<1>1. /\ n \in Nat \ {0}
      /\ DOMAIN albums = 1..n
      /\ \A i \in 1..n : albums[i] \in Albums
      /\ \A i \in 1..n : Size[albums[i]] \in Nat \ {0}
  <2>1. \A i \in 1..Len(albums) : albums[i] \in Albums
    BY ElementOfSeq
  <2> QED
    BY <2>1, EmptySeq, LenProperties, AnswersAssumption
<1>2. lines \in Seq(Blocks) /\ Len(lines) = n
  <2>1. \A i \in 1..n : Block(<<albums[i]>>, Size[albums[i]]) \in Blocks
    BY <1>1 DEF Block, Blocks
  <2>2. [i \in 1..n |-> Block(<<albums[i]>>, Size[albums[i]])] \in Seq(Blocks)
    BY <1>1, <2>1, IsASeq
  <2>3. Len([i \in 1..n |-> Block(<<albums[i]>>, Size[albums[i]])]) = n
    BY <1>1, <2>2
  <2> QED
    BY <1>1, <2>2, <2>3
<1>3. \A i \in 1..n : /\ lines[i].shows = <<albums[i]>>
                      /\ ~(lines[i].length = 0)
  BY <1>1 DEF Block
<1>4. <<Intro>> \in Seq(Blocks) /\ <<EmptyBlock>> \in Seq(Blocks)
  BY IntroFits DEF EmptyBlock, Block, Blocks
<1> HIDE DEF lines, n
<1>5. /\ front \in Seq(Blocks) /\ Len(front) = n + 1
      /\ front[1] = Intro
      /\ \A i \in 1..n : front[i + 1] = lines[i]
  <2>1. /\ front \in Seq(Blocks) /\ Len(front) = 1 + n
        /\ \A i \in 1 .. 1 + n :
              front[i] = IF i <= 1 THEN <<Intro>>[i] ELSE lines[i - 1]
    <3>1. Len(<<Intro>>) = 1
      OBVIOUS
    <3> QED
      BY <1>2, <1>4, <3>1, ConcatProperties
  <2> HIDE DEF front
  <2>2. \A i \in 1..n : i + 1 \in 1 .. 1 + n /\ ~(i + 1 <= 1) /\ (i + 1) - 1 = i
    BY <1>1
  <2>3. 1 \in 1 .. 1 + n
    BY <1>1
  <2> QED
    BY <1>1, <2>1, <2>2, <2>3
<1> HIDE DEF front
<1>6. /\ text \in Seq(Blocks) /\ Len(text) = n + 2
      /\ text[1] = Intro
      /\ \A i \in 1..n : text[i + 1] = lines[i]
      /\ text[n + 2] = EmptyBlock
  <2>1. /\ text \in Seq(Blocks) /\ Len(text) = (n + 1) + 1
        /\ \A i \in 1 .. (n + 1) + 1 :
              text[i] = IF i <= n + 1 THEN front[i] ELSE <<EmptyBlock>>[i - (n + 1)]
    <3>1. Len(<<EmptyBlock>>) = 1
      OBVIOUS
    <3> QED
      BY <1>4, <1>5, <3>1, ConcatProperties
  <2> HIDE DEF text
  <2>2. \A i \in 1..n : i + 1 \in 1 .. (n + 1) + 1 /\ i + 1 <= n + 1
    BY <1>1
  <2>3. /\ 1 \in 1 .. (n + 1) + 1 /\ 1 <= n + 1
        /\ n + 2 \in 1 .. (n + 1) + 1 /\ ~(n + 2 <= n + 1)
        /\ (n + 2) - (n + 1) = 1 /\ (n + 1) + 1 = n + 2
    BY <1>1
  <2> QED
    BY <1>5, <2>1, <2>2, <2>3
<1>7. FormatAlbumList(albums) = text
  BY DEF FormatAlbumList, text, front, lines
<1> HIDE DEF text
<1>8. \A i \in 1..n+2 : i = 1 \/ i = n + 2 \/ (i - 1 \in 1..n /\ (i - 1) + 1 = i)
  BY <1>1
<1>9. text \in Texts /\ DOMAIN text = 1..n+2
  BY <1>6, LenProperties DEF Texts
<1>10. Headed(text)
  <2>1. text # <<>>
    BY <1>1, <1>6
  <2>2. \A i \in 1..n+2 : text[i].length = 0 => text[i].shows = <<>>
    <3> TAKE i \in 1..n+2
    <3>1. CASE i = 1
      BY <1>6, <3>1, IntroFits
    <3>2. CASE i = n + 2
      BY <1>6, <3>2 DEF EmptyBlock, Block
    <3>3. CASE i - 1 \in 1..n /\ (i - 1) + 1 = i
      BY <1>3, <1>6, <3>3
    <3> QED
      BY <1>8, <3>1, <3>2, <3>3
  <2> QED
    BY <1>6, <1>9, <2>1, <2>2 DEF Headed
<1> DEFINE shown == [i \in DOMAIN text |-> text[i].shows]
           f == [i \in 0..n+2 |-> IF i = 0 THEN <<>>
                                  ELSE IF i = n + 2 THEN albums
                                  ELSE SubSeq(albums, 1, i - 1)]
<1>11. shown \in Seq(Seq(Albums)) /\ Len(shown) = n + 2
  BY <1>6, <1>9, ShownBlocks, TextShape
<1>12. \A i \in 1..n+2 : shown[i] = text[i].shows
  BY <1>9
<1>13. /\ f[0] = <<>> /\ f[1] = <<>> /\ f[n + 2] = albums
       /\ \A i \in 1..n : f[i + 1] = SubSeq(albums, 1, i)
  <2>1. 0 \in 0..n+2 /\ 1 \in 0..n+2 /\ n + 2 \in 0..n+2 /\ 1 # 0 /\ 1 # n + 2
        /\ n + 2 # 0
    BY <1>1
  <2>2. \A i \in 1..n : /\ i + 1 \in 0..n+2 /\ i + 1 # 0 /\ i + 1 # n + 2
                        /\ (i + 1) - 1 = i
    BY <1>1
  <2>3. SubSeq(albums, 1, 1 - 1) = <<>>
    BY SubSeqEmpty
  <2> QED
    BY <2>1, <2>2, <2>3
<1> HIDE DEF f, shown
<1>14. Concatenates(f, shown)
  <2> SUFFICES ASSUME NEW i \in 1..n+2
               PROVE  f[i] = f[i - 1] \o text[i].shows
    BY <1>11, <1>12, <1>13 DEF Concatenates
  <2>1. CASE i = 1
    <3>1. f[i] = <<>> /\ f[i - 1] = <<>> /\ text[i].shows = <<>>
      BY <1>6, <1>13, <2>1, IntroFits
    <3>2. <<>> = <<>> \o <<>>
      OBVIOUS
    <3> QED
      BY <3>1, <3>2
  <2>2. CASE i = n + 2
    <3>1. f[i] = albums /\ text[i].shows = <<>>
      BY <1>6, <1>13, <2>2 DEF EmptyBlock, Block
    <3>2. i - 1 = n + 1 /\ n \in 1..n
      BY <1>1, <2>2
    <3>3. f[i - 1] = SubSeq(albums, 1, n)
      BY <1>13, <3>2
    <3>4. SubSeq(albums, 1, n) = albums
      BY SubSeqFull DEF n
    <3> QED
      BY <3>1, <3>3, <3>4, ConcatEmptySeq
  <2>3. CASE i - 1 \in 1..n /\ (i - 1) + 1 = i /\ i # 1
    <3> DEFINE j == i - 1
    <3>1. f[i] = SubSeq(albums, 1, j) /\ text[i].shows = <<albums[j]>>
      BY <1>3, <1>6, <1>13, <2>3
    <3>2. f[j] = SubSeq(albums, 1, j - 1)
      <4>1. CASE j = 1
        <5>1. SubSeq(albums, 1, 1 - 1) = <<>>
          BY SubSeqEmpty
        <5> QED
          BY <1>13, <4>1, <5>1
      <4>2. CASE j # 1
        <5>1. j - 1 \in 1..n /\ (j - 1) + 1 = j
          BY <1>1, <2>3, <4>2
        <5> QED
          BY <1>13, <5>1
      <4> QED
        BY <4>1, <4>2
    <3>3. SubSeq(albums, 1, j) = SubSeq(albums, 1, j - 1) \o <<albums[j]>>
      <4>1. 1 \in 1..Len(albums) /\ j \in 1..Len(albums)
        BY <1>1, <2>3 DEF n
      <4> HIDE DEF j
      <4> QED
        BY <4>1, SubSeqRecursiveSecond
    <3> QED
      BY <3>1, <3>2, <3>3
  <2> QED
    BY <1>8, <2>1, <2>2, <2>3
<1>15. Shows(text) = f[n + 2]
  BY <1>11, <1>14, FlattenIs DEF Shows, shown
<1> QED
  BY <1>7, <1>10, <1>13, <1>15

----------------------------------------------------------------------------
(* What a handler shows is what it was asked for.                          *)

\* The albums of a set, each once.
Lists(albums, S) ==
    /\ albums \in Seq(Albums)
    /\ Range(albums) = S
    /\ IsInjective(albums)
    /\ Len(albums) = Cardinality(S)

LEMMA ShuffledLists ==
    ASSUME NEW S \in SUBSET Albums, NEW albums \in Shuffled(S)
    PROVE  Lists(albums, S)
<1>1. IsFiniteSet(S) /\ Cardinality(S) \in Nat
  BY AnswersAssumption, FS_Subset, FS_CardinalityType
<1> DEFINE n == Cardinality(S)
<1>2. /\ albums \in [1..n -> S]
      /\ \A i, j \in 1..n : i # j => albums[i] # albums[j]
  BY DEF Shuffled, SetToSeqs
<1> HIDE DEF n
<1>3. n \in Nat /\ n = Cardinality(S)
  BY <1>1 DEF n
<1>4. albums \in Seq(Albums) /\ Len(albums) = n /\ DOMAIN albums = 1..n
  BY <1>2, <1>3
<1>5. IsInjective(albums)
  BY <1>2, <1>4 DEF IsInjective
<1>6. albums \in Injection(1..n, S)
  BY <1>2, <1>5 DEF Injection
<1>7. IsFiniteSet(1..n) /\ Cardinality(1..n) = n
  BY <1>3, FS_Interval
<1>8. albums \in Surjection(1..n, S)
  BY <1>1, <1>3, <1>6, <1>7, FS_Injection
<1>9. Range(albums) = S
  BY <1>2, <1>4, <1>8 DEF Surjection, Range
<1> QED
  BY <1>3, <1>4, <1>5, <1>9 DEF Lists

LEMMA FirstOfShape ==
    ASSUME NEW albums \in Seq(Albums), NEW limit \in Nat
    PROVE  LET first == FirstOf(albums, limit)
           IN  /\ first \in Seq(Albums)
               /\ Len(first) = Min({limit, Len(albums)})
               /\ Len(first) <= Len(albums)
               /\ \A i \in 1..Len(first) : first[i] = albums[i]
<1> DEFINE n == Min({limit, Len(albums)})
<1>1. Len(albums) \in Nat
  OBVIOUS
<1>2. n \in Nat /\ n <= Len(albums)
  BY <1>1, MinOfTwo
<1> HIDE DEF n
<1>3. \A i \in 1..n : albums[i] \in Albums
  BY <1>1, <1>2, ElementOfSeq
<1>4. /\ SubSeq(albums, 1, n) \in Seq(Albums)
      /\ Len(SubSeq(albums, 1, n)) = IF 1 <= n THEN n - 1 + 1 ELSE 0
      /\ \A i \in 1 .. n - 1 + 1 : SubSeq(albums, 1, n)[i] = albums[1 + i - 1]
  BY <1>2, <1>3, SubSeqProperties
<1>5. Len(SubSeq(albums, 1, n)) = n
  BY <1>2, <1>4
<1>6. \A i \in 1..n : SubSeq(albums, 1, n)[i] = albums[i]
  <2>1. \A i \in 1..n : i \in 1 .. n - 1 + 1 /\ 1 + i - 1 = i
    BY <1>2
  <2> QED
    BY <1>4, <2>1
<1>7. FirstOf(albums, limit) = SubSeq(albums, 1, n)
  BY DEF FirstOf, n
<1> QED
  BY <1>2, <1>4, <1>5, <1>6, <1>7 DEF n

\* The first of a list are of the set, and what is left comes behind them.
LEMMA FirstOfLists ==
    ASSUME NEW S \in SUBSET Albums, NEW albums, Lists(albums, S),
           NEW limit \in Nat
    PROVE  LET first == FirstOf(albums, limit)
           IN  /\ first \in Seq(Albums)
               /\ Range(first) \subseteq S
               /\ IsInjective(first)
               /\ Len(first) = Min({limit, Cardinality(S)})
               /\ \A i \in DOMAIN first : i \in DOMAIN albums /\ first[i] = albums[i]
               /\ \A b \in S \ Range(first) :
                     \E j \in DOMAIN albums :
                        /\ albums[j] = b
                        /\ \A i \in DOMAIN first : i < j
<1> DEFINE first == FirstOf(albums, limit)
<1>1. /\ albums \in Seq(Albums) /\ Range(albums) = S /\ IsInjective(albums)
      /\ Len(albums) = Cardinality(S)
  BY DEF Lists
<1>2. /\ first \in Seq(Albums)
      /\ Len(first) = Min({limit, Len(albums)})
      /\ Len(first) <= Len(albums)
      /\ \A i \in 1..Len(first) : first[i] = albums[i]
  BY <1>1, FirstOfShape
<1> HIDE DEF first
<1>3. /\ Len(albums) \in Nat /\ DOMAIN albums = 1..Len(albums)
      /\ Len(first) \in Nat /\ DOMAIN first = 1..Len(first)
  BY <1>1, <1>2, LenProperties
<1>4. \A i \in DOMAIN first : i \in DOMAIN albums /\ first[i] = albums[i]
  <2>1. 1..Len(first) \subseteq 1..Len(albums)
    BY <1>2, <1>3
  <2> QED
    BY <1>2, <1>3, <2>1, Zenon
<1>5. Range(first) \subseteq S
  BY <1>1, <1>4 DEF Range
<1>6. IsInjective(first)
  BY <1>1, <1>4 DEF IsInjective
<1>7. ASSUME NEW b \in S \ Range(first)
      PROVE  \E j \in DOMAIN albums : albums[j] = b /\ \A i \in DOMAIN first : i < j
  <2>1. PICK j \in DOMAIN albums : albums[j] = b
    BY <1>1 DEF Range
  <2>2. j \notin DOMAIN first
    BY <1>4, <2>1 DEF Range
  <2>3. \A i \in DOMAIN first : i < j
    BY <1>3, <2>2
  <2> QED
    BY <2>1, <2>3
<1> QED
  BY <1>1, <1>2, <1>4, <1>5, <1>6, <1>7 DEF first

LEMMA SearchAnswers ==
    ASSUME NEW matches \in SUBSET Albums,
           NEW albums \in SearchAlbums(matches, Limit["search"])
    PROVE  albums \in Seq(Albums) /\ IsAnswer("search", matches, albums)
<1> DEFINE limit == Limit["search"]
<1>1. limit \in Nat
  BY AnswersAssumption DEF AnswerKinds
<1>2. PICK s \in Shuffled(matches) :
         /\ albums = FirstOf(s, limit)
         /\ \A i, j \in DOMAIN s : i < j => ~(s[j] < s[i])
  BY DEF SearchAlbums, Sorted, Ordered
<1>3. Lists(s, matches)
  BY <1>2, ShuffledLists
<1>4. /\ albums \in Seq(Albums)
      /\ Range(albums) \subseteq matches
      /\ IsInjective(albums)
      /\ Len(albums) = Min({limit, Cardinality(matches)})
      /\ \A i \in DOMAIN albums : i \in DOMAIN s /\ albums[i] = s[i]
      /\ \A b \in matches \ Range(albums) :
            \E j \in DOMAIN s : s[j] = b /\ \A i \in DOMAIN albums : i < j
  <2>1. albums = FirstOf(s, limit)
    BY <1>2
  <2> HIDE DEF limit
  <2> QED
    BY <1>1, <1>3, <2>1, FirstOfLists
<1>5. \A i, j \in DOMAIN s : i < j => s[i] < s[j]
  <2> TAKE i, j \in DOMAIN s
  <2>1. s[i] \in Nat /\ s[j] \in Nat /\ i \in Nat /\ j \in Nat
    <3>1. s \in Seq(Albums)
      BY <1>3 DEF Lists
    <3>2. s[i] \in Albums /\ s[j] \in Albums /\ i \in Nat /\ j \in Nat
      BY <3>1
    <3> QED
      BY <3>2, AnswersAssumption
  <2> HAVE i < j
  <2>2. s[i] # s[j]
    BY <1>3, <2>1 DEF Lists, IsInjective
  <2> QED
    BY <1>2, <2>1, <2>2
<1>6. \A i, j \in DOMAIN albums : i < j => albums[i] < albums[j]
  BY <1>4, <1>5
<1>7. \A a \in Range(albums), b \in matches \ Range(albums) : a < b
  <2> TAKE a \in Range(albums), b \in matches \ Range(albums)
  <2>1. PICK i \in DOMAIN albums : albums[i] = a
    BY DEF Range
  <2>2. PICK j \in DOMAIN s : s[j] = b /\ i < j
    BY <1>4
  <2> QED
    BY <1>4, <1>5, <2>1, <2>2
<1> QED
  BY <1>4, <1>6, <1>7 DEF IsAnswer

LEMMA RecentAnswers ==
    ASSUME NEW matches \in SUBSET Albums,
           NEW albums \in Recent(matches, Limit["recent"])
    PROVE  albums \in Seq(Albums) /\ IsAnswer("recent", matches, albums)
<1> DEFINE limit == Limit["recent"]
<1>1. limit \in Nat
  BY AnswersAssumption DEF AnswerKinds
<1>2. PICK s \in Shuffled(matches) :
         /\ albums = FirstOf(s, limit)
         /\ \A i, j \in DOMAIN s : i < j => ~(Created[s[j]] > Created[s[i]])
  BY DEF Recent, Sorted, Ordered, Newer
<1>3. Lists(s, matches)
  BY <1>2, ShuffledLists
<1>4. /\ albums \in Seq(Albums)
      /\ Range(albums) \subseteq matches
      /\ IsInjective(albums)
      /\ Len(albums) = Min({limit, Cardinality(matches)})
      /\ \A i \in DOMAIN albums : i \in DOMAIN s /\ albums[i] = s[i]
      /\ \A b \in matches \ Range(albums) :
            \E j \in DOMAIN s : s[j] = b /\ \A i \in DOMAIN albums : i < j
  <2> HIDE DEF limit
  <2> QED
    BY <1>1, <1>2, <1>3, FirstOfLists
<1>5. \A i, j \in DOMAIN albums :
         i < j => ~(Created[albums[j]] > Created[albums[i]])
  BY <1>2, <1>4
<1>6. \A a \in Range(albums), b \in matches \ Range(albums) :
         Created[a] >= Created[b]
  <2> TAKE a \in Range(albums), b \in matches \ Range(albums)
  <2>1. PICK i \in DOMAIN albums : albums[i] = a
    BY DEF Range
  <2>2. PICK j \in DOMAIN s : s[j] = b /\ i < j
    BY <1>4
  <2>3. ~(Created[b] > Created[a])
    BY <1>2, <1>4, <2>1, <2>2
  <2>4. a \in Albums /\ b \in Albums
    BY <1>4
  <2> QED
    BY <2>3, <2>4, AnswersAssumption
<1> QED
  BY <1>4, <1>5, <1>6 DEF IsAnswer, Ordered, Newer

\* What is drawn, in whatever order.
LEMMA DrawnAnswers ==
    ASSUME NEW matches \in SUBSET Albums, NEW limit \in Nat,
           NEW S \in AnyOf(matches, limit), NEW albums \in Shuffled(S)
    PROVE  /\ albums \in Seq(Albums)
           /\ Range(albums) \subseteq matches
           /\ IsInjective(albums)
           /\ Len(albums) = Min({limit, Cardinality(matches)})
<1>1. /\ S \in SUBSET matches
      /\ Cardinality(S) = Min({limit, Cardinality(matches)})
  BY DEF AnyOf, kSubset
<1>2. S \in SUBSET Albums
  BY <1>1
<1>3. Lists(albums, S)
  BY <1>2, ShuffledLists
<1> QED
  BY <1>1, <1>3 DEF Lists

LEMMA Answered ==
    ASSUME NEW kind \in AnswerKinds, NEW matches \in SUBSET Albums,
           NEW albums \in Answering(kind, matches)
    PROVE  albums \in Seq(Albums) /\ IsAnswer(kind, matches, albums)
<1>1. Limit[kind] \in Nat
  BY AnswersAssumption
<1>2. CASE kind = "search"
  BY <1>2, SearchAnswers DEF Answering
<1>3. CASE kind = "recent"
  BY <1>3, RecentAnswers DEF Answering
<1>4. CASE kind = "year"
  <2>1. albums \in GetAlbumsByYear(matches, Limit["year"])
    BY <1>4 DEF Answering
  <2>2. PICK S \in AnyOf(matches, Limit["year"]) :
           albums \in Shuffled(S) /\ Ordered(albums, Earlier)
    BY <2>1 DEF GetAlbumsByYear, Sorted
  <2> QED
    BY <1>1, <1>4, <2>2, DrawnAnswers DEF IsAnswer
<1>5. CASE kind \in {"random", "genre", "rec"}
  <2>1. albums \in Random(matches, Limit[kind])
    BY <1>5 DEF Answering
  <2>2. PICK S \in AnyOf(matches, Limit[kind]) : albums \in Shuffled(S)
    BY <2>1 DEF Random
  <2> QED
    BY <1>1, <1>5, <2>2, DrawnAnswers DEF IsAnswer
<1> QED
  BY <1>2, <1>3, <1>4, <1>5 DEF AnswerKinds

LEMMA NothingAnswers ==
    ASSUME NEW kind \in AnswerKinds
    PROVE  IsAnswer(kind, {}, <<>>)
<1>1. Limit[kind] \in Nat
  BY AnswersAssumption
<1>2. Cardinality({}) = 0
  BY FS_EmptySet
<1>3. Min({Limit[kind], Cardinality({})}) = 0
  BY <1>1, <1>2, MinOfTwo
<1>4. Range(<<>>) = {} /\ DOMAIN <<>> = {} /\ Len(<<>>) = 0
  BY DEF Range
<1> QED
  BY <1>3, <1>4 DEF IsAnswer, IsInjective, Ordered

----------------------------------------------------------------------------
(* The invariant.  While a handler looks for albums it has told nothing.   *)
(* What it shows on photos is an answer; and so is what it has told, with  *)
(* what the chunks show that are still to be sent.                         *)

AnswerRecords ==
    [pc : AnswerPCs, kind : AnswerKinds \cup {"none"}, matches : SUBSET Albums,
     albums : Seq(Albums), chunks : Seq(Texts), told : Seq(Albums),
     lost : BOOLEAN]

Asked(w, r) ==
    /\ r.kind \in Kinds[w] \cup {"none"}
    /\ r.pc # "idle" => r.kind \in Kinds[w]

Pending(r) ==
    /\ r.pc = "send" <=> r.chunks # <<>>
    /\ r.pc \in {"photo", "media"} <=> r.albums # <<>>
    /\ r.pc \in {"query", "folder"} => r.matches = {}
    /\ r.pc \in {"query", "folder", "photo", "media"} => r.told = <<>> /\ ~r.lost

Truthful(r) ==
    /\ r.pc \in {"photo", "media"} => IsAnswer(r.kind, r.matches, r.albums)
    /\ r.pc = "send" /\ ~r.lost =>
          IsAnswer(r.kind, r.matches, r.told \o Displayed(r.chunks))
    /\ r.pc = "done" /\ ~r.lost => IsAnswer(r.kind, r.matches, r.told)

RecordOK(w, r) ==
    /\ r \in AnswerRecords
    /\ Asked(w, r)
    /\ Pending(r)
    /\ Truthful(r)
    /\ \A chunk \in Range(r.chunks) : Fits(chunk)

AnswerInv ==
    /\ DOMAIN answer = Callers
    /\ answer = [w \in Callers |-> answer[w]]
    /\ \A w \in Callers :
          /\ RecordOK(w, answer[w])
          /\ At(w, "folder") <=> call[w] # "none"

LEMMA NoAnswerOK ==
    ASSUME NEW w \in Callers
    PROVE  RecordOK(w, NoAnswer)
<1>1. NoAnswer \in AnswerRecords
  BY DEF NoAnswer, AnswerRecords, AnswerPCs, Texts
<1>2. Range(NoAnswer.chunks) = {}
  BY DEF NoAnswer, Range
<1> QED
  BY <1>1, <1>2 DEF NoAnswer, RecordOK, Asked, Pending, Truthful

LEMMA BecomeKeeps ==
    ASSUME AnswerInv, NEW w \in Callers, NEW r, RecordOK(w, r), Become(w, r),
           r.pc = "folder" <=> call'[w] # "none",
           \A v \in Callers \ {w} : call'[v] # "none" <=> call[v] # "none"
    PROVE  AnswerInv'
<1>1. DOMAIN answer = Callers /\ answer' = [answer EXCEPT ![w] = r]
  BY DEF AnswerInv, Become
<1>2. /\ DOMAIN answer' = Callers
      /\ answer' = [v \in Callers |-> answer'[v]]
      /\ \A v \in Callers : answer'[v] = IF v = w THEN r ELSE answer[v]
  BY <1>1
<1>3. ASSUME NEW v \in Callers
      PROVE  /\ RecordOK(v, answer'[v])
             /\ answer'[v].pc = "folder" <=> call'[v] # "none"
  <2>1. CASE v = w
    BY <1>2, <2>1
  <2>2. CASE v # w
    BY <1>2, <2>2 DEF AnswerInv, At
  <2> QED
    BY <2>1, <2>2
<1>4. \A v \in Callers : RecordOK(v, answer[v])' <=> RecordOK(v, answer'[v])
  BY DEF RecordOK, AnswerRecords, Asked, Pending, Truthful, Fits, Texts, Blocks
<1> QED
  BY <1>2, <1>3, <1>4 DEF AnswerInv, At

\* What is handed to SendMessage shows the rest of the answer.
LEMMA SendingOK ==
    ASSUME NEW w \in Callers, NEW r \in AnswerRecords, r.kind \in Kinds[w],
           r.albums = <<>>, r.told = <<>>, NEW text, Headed(text),
           IsAnswer(r.kind, r.matches, Shows(text))
    PROVE  RecordOK(w, [r EXCEPT !.pc = "send", !.chunks = SplitMessage(text)])
<1> DEFINE chunks == SplitMessage(text)
           next == [r EXCEPT !.pc = "send", !.chunks = chunks]
<1>1. /\ chunks \in Seq(Texts) /\ chunks # <<>>
      /\ \A chunk \in Range(chunks) : Fits(chunk)
      /\ Displayed(chunks) = Shows(text)
      /\ Shows(text) \in Seq(Albums)
  BY SplitFits, SplitShows, ShowsType DEF Headed
<1> HIDE DEF chunks
<1>2. /\ next \in AnswerRecords
      /\ next.pc = "send" /\ next.chunks = chunks
      /\ next.kind = r.kind /\ next.matches = r.matches
      /\ next.albums = <<>> /\ next.told = <<>> /\ next.lost = r.lost
  BY <1>1 DEF AnswerRecords, AnswerPCs
<1> HIDE DEF next
<1>3. next.told \o Displayed(chunks) = Shows(text)
  BY <1>1, <1>2, ConcatEmptySeq
<1>4. Truthful(next)
  BY <1>2, <1>3 DEF Truthful
<1>5. RecordOK(w, next)
  BY <1>1, <1>2, <1>4 DEF RecordOK, Asked, Pending
<1> QED
  BY <1>5 DEF next, chunks

LEMMA KindsOf ==
    ASSUME NEW w \in Callers, NEW kind \in Kinds[w]
    PROVE  kind \in AnswerKinds
  BY AnswersAssumption

LEMMA ReceiveKeeps ==
    ASSUME FolderInv, AnswerInv, NEW w \in Callers, Receive(w)
    PROVE  AnswerInv'
<1>1. PICK kind \in Kinds[w] :
         IF kind \in FromServer
         THEN /\ CallFolder(w)
              /\ Become(w, [NoAnswer EXCEPT !.pc = "folder", !.kind = kind])
         ELSE /\ Become(w, [NoAnswer EXCEPT !.pc = "query", !.kind = kind])
              /\ UNCHANGED foldervars
  BY DEF Receive
<1>2. ASSUME NEW pc \in {"folder", "query"}
      PROVE  LET r == [NoAnswer EXCEPT !.pc = pc, !.kind = kind]
             IN  RecordOK(w, r) /\ r.pc = pc
  <2> DEFINE r == [NoAnswer EXCEPT !.pc = pc, !.kind = kind]
  <2>1. /\ r \in AnswerRecords
        /\ r.pc = pc /\ r.kind = kind /\ r.chunks = <<>> /\ r.albums = <<>>
        /\ r.matches = {} /\ r.told = <<>> /\ r.lost = FALSE
    <3>1. /\ NoAnswer \in AnswerRecords
          /\ NoAnswer.chunks = <<>> /\ NoAnswer.albums = <<>>
          /\ NoAnswer.matches = {} /\ NoAnswer.told = <<>>
          /\ NoAnswer.lost = FALSE
      BY NoAnswerOK DEF RecordOK, NoAnswer
    <3>2. kind \in AnswerKinds /\ pc \in AnswerPCs
      BY KindsOf DEF AnswerPCs
    <3> QED
      BY <3>1, <3>2 DEF AnswerRecords
  <2> HIDE DEF r
  <2>2. Range(r.chunks) = {}
    BY <2>1 DEF Range
  <2>3. RecordOK(w, r)
    BY <2>1, <2>2 DEF RecordOK, Asked, Pending, Truthful
  <2> QED
    BY <2>1, <2>3 DEF r
<1>3. CASE kind \in FromServer
  <2>1. /\ Move(w, "rlock")
        /\ Become(w, [NoAnswer EXCEPT !.pc = "folder", !.kind = kind])
    BY <1>1, <1>3 DEF CallFolder
  <2>2. call'[w] = "rlock" /\ \A v \in Callers \ {w} : call'[v] = call[v]
    BY <2>1, MoveMoves DEF FolderInv, FolderPCs
  <2> QED
    BY <1>2, <2>1, <2>2, BecomeKeeps
<1>4. CASE kind \notin FromServer
  <2>1. /\ call' = call
        /\ Become(w, [NoAnswer EXCEPT !.pc = "query", !.kind = kind])
    BY <1>1, <1>4 DEF foldervars
  <2>2. call[w] = "none"
    BY DEF Receive, At, AnswerInv
  <2> QED
    BY <1>2, <2>1, <2>2, BecomeKeeps
<1> QED
  BY <1>3, <1>4

\* What Query and List show, when they find something and when they do not.
LEMMA ShownOK ==
    ASSUME AnswerInv, NEW w \in Callers, answer[w].pc \in {"query", "folder"},
           \/ SendNone(w)
           \/ \E matches \in SUBSET Albums :
                 \E albums \in Answering(answer[w].kind, matches) :
                    Show(w, matches, albums)
    PROVE  \E r : /\ RecordOK(w, r) /\ Become(w, r)
                  /\ r.pc \in {"send", "photo", "media"}
<1> DEFINE old == answer[w]
<1>1. /\ RecordOK(w, old)
      /\ old \in AnswerRecords /\ old.kind \in Kinds[w]
      /\ old.albums = <<>> /\ old.chunks = <<>> /\ old.told = <<>>
      /\ old.lost = FALSE /\ old.matches = {}
  BY DEF AnswerInv, RecordOK, Asked, Pending, AnswerRecords
<1>2. old.kind \in AnswerKinds
  BY <1>1, KindsOf
<1> HIDE DEF old
<1>3. CASE SendNone(w)
  <2> DEFINE r == [old EXCEPT !.pc = "send", !.chunks = SplitMessage(<<Intro>>)]
  <2>1. Become(w, r)
    BY <1>3 DEF SendNone, Send, old
  <2>2. RecordOK(w, r)
    BY <1>1, <1>2, IntroIsHeaded, NothingAnswers, SendingOK
  <2>3. r.pc = "send"
    BY <1>1 DEF AnswerRecords
  <2> QED
    BY <2>1, <2>2, <2>3
<1>4. ASSUME NEW matches \in SUBSET Albums,
             NEW albums \in Answering(old.kind, matches), albums # <<>>,
             Show(w, matches, albums)
      PROVE  \E r : /\ RecordOK(w, r) /\ Become(w, r)
                    /\ r.pc \in {"send", "photo", "media"}
  <2> DEFINE r == [old EXCEPT !.matches = matches]
  <2>1. albums \in Seq(Albums) /\ IsAnswer(old.kind, matches, albums)
    BY <1>2, Answered
  <2>2. /\ r \in AnswerRecords
        /\ r.kind = old.kind /\ r.matches = matches
        /\ r.albums = <<>> /\ r.told = <<>> /\ r.chunks = <<>> /\ r.lost = FALSE
    BY <1>1 DEF AnswerRecords
  <2>3. \/ r.kind = "search" /\ Send(w, r, FormatResults(albums))
        \/ Send(w, r, FormatAlbumList(albums))
        \/ Become(w, [[r EXCEPT !.albums = albums] EXCEPT !.pc = "photo"])
        \/ Become(w, [[r EXCEPT !.albums = albums] EXCEPT !.pc = "media"])
    BY <1>2, <1>4, <2>2 DEF Show, AnswerKinds, old
  <2> HIDE DEF r
  <2>4. ASSUME NEW text, Headed(text), Shows(text) = albums, Send(w, r, text)
        PROVE  \E new : /\ RecordOK(w, new) /\ Become(w, new)
                        /\ new.pc \in {"send", "photo", "media"}
    <3> DEFINE new == [r EXCEPT !.pc = "send", !.chunks = SplitMessage(text)]
    <3>1. RecordOK(w, new)
      BY <1>1, <2>1, <2>2, <2>4, SendingOK
    <3>2. new.pc = "send"
      BY <2>2 DEF AnswerRecords
    <3>3. Become(w, new)
      BY <2>4 DEF Send
    <3> QED
      BY <3>1, <3>2, <3>3
  <2>5. ASSUME NEW pc \in {"photo", "media"},
               Become(w, [[r EXCEPT !.albums = albums] EXCEPT !.pc = pc])
        PROVE  \E new : /\ RecordOK(w, new) /\ Become(w, new)
                        /\ new.pc \in {"send", "photo", "media"}
    <3> DEFINE new == [[r EXCEPT !.albums = albums] EXCEPT !.pc = pc]
    <3>1. /\ new \in AnswerRecords
          /\ new.pc = pc /\ new.kind = old.kind /\ new.matches = matches
          /\ new.albums = albums /\ new.told = <<>> /\ new.chunks = <<>>
          /\ new.lost = FALSE
      BY <2>1, <2>2 DEF AnswerRecords, AnswerPCs
    <3> HIDE DEF new
    <3>2. Range(new.chunks) = {}
      BY <3>1 DEF Range
    <3>3. RecordOK(w, new)
      BY <1>1, <1>4, <2>1, <3>1, <3>2 DEF RecordOK, Asked, Pending, Truthful
    <3> QED
      BY <2>5, <3>1, <3>3 DEF new
  <2> QED
    BY <2>1, <2>3, <2>4, <2>5, <1>4, ResultsAreHeaded, ListIsHeaded
<1>5. CASE \E matches \in SUBSET Albums :
              \E albums \in Answering(old.kind, matches) :
                 Show(w, matches, albums)
  <2>1. PICK matches \in SUBSET Albums :
           \E albums \in Answering(old.kind, matches) : Show(w, matches, albums)
    BY <1>5
  <2>2. PICK albums \in Answering(old.kind, matches) : Show(w, matches, albums)
    BY <2>1
  <2>3. CASE albums = <<>>
    <3>1. SendNone(w)
      BY <2>2, <2>3 DEF Show
    <3> QED
      BY <1>3, <3>1
  <2> QED
    BY <1>4, <2>2, <2>3
<1> QED
  BY <1>3, <1>5 DEF old

LEMMA QueryKeeps ==
    ASSUME AnswerInv, NEW w \in Callers, Query(w)
    PROVE  AnswerInv'
<1>1. answer[w].pc = "query" /\ call' = call
  BY DEF Query, At, foldervars
<1>2. PICK r : RecordOK(w, r) /\ Become(w, r) /\ r.pc \in {"send", "photo", "media"}
  BY <1>1, ShownOK DEF Query
<1>3. call[w] = "none"
  BY <1>1 DEF AnswerInv, At
<1> QED
  BY <1>1, <1>2, <1>3, BecomeKeeps

LEMMA ListKeeps ==
    ASSUME FolderInv, AnswerInv, NEW w \in Callers, List(w)
    PROVE  AnswerInv'
<1>1. answer[w].pc = "folder" /\ Move(w, "none")
  BY DEF List, At, ReturnFolder
<1>2. \/ SendNone(w)
      \/ \E matches \in SUBSET Albums :
            \E albums \in Answering(answer[w].kind, matches) :
               Show(w, matches, albums)
  BY DEF List
<1>3. PICK r : RecordOK(w, r) /\ Become(w, r) /\ r.pc \in {"send", "photo", "media"}
  BY <1>1, <1>2, ShownOK
<1>4. call'[w] = "none" /\ \A v \in Callers \ {w} : call'[v] = call[v]
  BY <1>1, MoveMoves DEF FolderInv, FolderPCs
<1> QED
  BY <1>3, <1>4, BecomeKeeps

\* The photo, or the text that replaces it.
LEMMA SendPhotoKeeps ==
    ASSUME AnswerInv, NEW w \in Callers, SendPhoto(w) \/ SendMedia(w)
    PROVE  AnswerInv'
<1> DEFINE r == answer[w]
           caption == FormatRecommendations(r.albums)
           left == [r EXCEPT !.albums = <<>>]
           shown == [Tell(r, r.albums) EXCEPT !.pc = "done"]
           lost == [Lose(r) EXCEPT !.pc = "done"]
           sent == [left EXCEPT !.pc = "send", !.chunks = SplitMessage(caption)]
<1>1. /\ r.pc \in {"photo", "media"} /\ call' = call
      /\ Become(w, shown) \/ Become(w, lost) \/ Become(w, sent)
  BY DEF SendPhoto, SendMedia, At, foldervars, Finish, Send, FormatSuggestion,
         FormatRecommendations
<1>2. /\ r \in AnswerRecords /\ r.kind \in Kinds[w]
      /\ r.albums \in Seq(Albums) /\ r.albums # <<>>
      /\ r.chunks = <<>> /\ r.told = <<>> /\ r.lost = FALSE
      /\ IsAnswer(r.kind, r.matches, r.albums)
      /\ call[w] = "none"
  BY <1>1 DEF AnswerInv, RecordOK, Asked, Pending, Truthful, AnswerRecords, At
<1> HIDE DEF r
<1>3. RecordOK(w, shown) /\ shown.pc = "done"
  <2>1. r.told \o r.albums = r.albums
    BY <1>2, ConcatEmptySeq
  <2>2. shown = [[r EXCEPT !.told = r.albums, !.albums = <<>>] EXCEPT !.pc = "done"]
    BY <1>2, <2>1 DEF Tell
  <2>3. /\ shown \in AnswerRecords
        /\ shown.pc = "done" /\ shown.kind = r.kind /\ shown.matches = r.matches
        /\ shown.albums = <<>> /\ shown.chunks = <<>> /\ shown.told = r.albums
    BY <1>2, <2>2 DEF AnswerRecords, AnswerPCs
  <2> HIDE DEF shown
  <2>4. Range(shown.chunks) = {}
    BY <2>3 DEF Range
  <2> QED
    BY <1>2, <2>3, <2>4 DEF RecordOK, Asked, Pending, Truthful
<1>4. RecordOK(w, lost) /\ lost.pc = "done"
  <2>1. /\ lost \in AnswerRecords
        /\ lost.pc = "done" /\ lost.kind = r.kind /\ lost.matches = r.matches
        /\ lost.albums = <<>> /\ lost.chunks = <<>> /\ lost.lost = TRUE
    BY <1>2 DEF AnswerRecords, AnswerPCs, Lose
  <2> HIDE DEF lost
  <2>2. Range(lost.chunks) = {}
    BY <2>1 DEF Range
  <2> QED
    BY <1>2, <2>1, <2>2 DEF RecordOK, Asked, Pending, Truthful
<1>5. RecordOK(w, sent) /\ sent.pc = "send"
  <2>1. /\ left \in AnswerRecords
        /\ left.kind = r.kind /\ left.matches = r.matches
        /\ left.albums = <<>> /\ left.told = <<>>
    BY <1>2 DEF AnswerRecords
  <2> HIDE DEF left
  <2>2. Headed(caption) /\ Shows(caption) = r.albums
    BY <1>2, ResultsAreHeaded DEF FormatRecommendations
  <2> HIDE DEF caption
  <2>3. RecordOK(w, sent)
    BY <1>2, <2>1, <2>2, SendingOK
  <2>4. sent.pc = "send"
    BY <2>1 DEF AnswerRecords
  <2> QED
    BY <2>3, <2>4
<1> HIDE DEF shown, lost, sent
<1>6. PICK new : /\ RecordOK(w, new) /\ Become(w, new)
                 /\ new.pc \in {"done", "send"}
  BY <1>1, <1>3, <1>4, <1>5
<1> QED
  BY <1>1, <1>2, <1>6, BecomeKeeps

\* One message less, and what it shows is told.
LEMMA SendChunkKeeps ==
    ASSUME AnswerInv, NEW w \in Callers, SendChunk(w)
    PROVE  AnswerInv'
<1> DEFINE old == answer[w]
           chunk == Head(old.chunks)
           rest == Tail(old.chunks)
           r == [old EXCEPT !.chunks = rest]
           pc == IF rest = <<>> THEN "done" ELSE "send"
<1>1. /\ old \in AnswerRecords /\ old.pc = "send"
      /\ old.kind \in Kinds[w] /\ old.albums = <<>>
      /\ old.chunks # <<>> /\ old.chunks \in Seq(Texts)
      /\ \A c \in Range(old.chunks) : Fits(c)
      /\ ~old.lost =>
            IsAnswer(old.kind, old.matches, old.told \o Displayed(old.chunks))
      /\ call' = call /\ call[w] = "none"
  BY DEF SendChunk, At, foldervars, AnswerInv, RecordOK, Asked, Pending,
         Truthful, AnswerRecords
<1>2. /\ chunk \in Texts /\ rest \in Seq(Texts)
      /\ Displayed(old.chunks) = Shows(chunk) \o Displayed(rest)
      /\ Shows(chunk) \in Seq(Albums) /\ Displayed(rest) \in Seq(Albums)
  BY <1>1, DisplayedTail, ShowsType, DisplayedType
<1>3. \A c \in Range(rest) : Fits(c)
  <2>1. /\ Len(rest) = Len(old.chunks) - 1
        /\ \A i \in 1..Len(rest) : rest[i] = old.chunks[i + 1]
        /\ DOMAIN rest = 1..Len(rest) /\ DOMAIN old.chunks = 1..Len(old.chunks)
        /\ Len(old.chunks) \in Nat
    BY <1>1, <1>2, HeadTailProperties, LenProperties
  <2> HIDE DEF rest, old
  <2>2. \A i \in 1..Len(rest) : i + 1 \in 1..Len(old.chunks)
    BY <2>1
  <2> QED
    BY <1>1, <2>1, <2>2 DEF Range
<1>4. PICK new \in {Tell(r, Shows(chunk)), Lose(r)} :
         Become(w, [new EXCEPT !.pc = pc])
  <2>1. ASSUME NEW new, IF rest = <<>> THEN Finish(w, new) ELSE Become(w, new),
               new \in AnswerRecords, new.pc = "send"
        PROVE  Become(w, [new EXCEPT !.pc = pc])
    <3>1. CASE rest = <<>>
      BY <2>1, <3>1 DEF Finish
    <3>2. CASE rest # <<>>
      <4>1. new = [new EXCEPT !.pc = "send"]
        BY <2>1 DEF AnswerRecords
      <4> QED
        BY <2>1, <3>2, <4>1
    <3> QED
      BY <3>1, <3>2
  <2>2. old.told \o Shows(chunk) \in Seq(Albums)
    <3>1. old.told \in Seq(Albums)
      BY <1>1 DEF AnswerRecords
    <3> QED
      BY <1>2, <3>1, ConcatProperties
  <2>3. /\ Tell(r, Shows(chunk)) \in AnswerRecords
        /\ Tell(r, Shows(chunk)).pc = "send"
        /\ Lose(r) \in AnswerRecords /\ Lose(r).pc = "send"
    <3> HIDE DEF old, chunk, rest
    <3> QED
      BY <1>1, <1>2, <2>2 DEF AnswerRecords, Tell, Lose
  <2>4. \/ IF rest = <<>> THEN Finish(w, Tell(r, Shows(chunk)))
                          ELSE Become(w, Tell(r, Shows(chunk)))
        \/ IF rest = <<>> THEN Finish(w, Lose(r)) ELSE Become(w, Lose(r))
    <3>1. r.chunks = rest
      BY <1>1 DEF AnswerRecords
    <3> QED
      BY <3>1 DEF SendChunk
  <2> QED
    BY <2>1, <2>3, <2>4
<1> DEFINE next == [new EXCEPT !.pc = pc]
<1>5. /\ next \in AnswerRecords /\ next.pc = pc
      /\ next.kind = old.kind /\ next.matches = old.matches
      /\ next.albums = <<>> /\ next.chunks = rest
      /\ ~next.lost => ~old.lost /\ next.told = old.told \o Shows(chunk)
  <2>1. old.told \o Shows(chunk) \in Seq(Albums)
    <3>1. old.told \in Seq(Albums)
      BY <1>1 DEF AnswerRecords
    <3> QED
      BY <1>2, <3>1, ConcatProperties
  <2> HIDE DEF old, chunk, rest
  <2>2. CASE new = Tell(r, Shows(chunk))
    BY <1>1, <1>2, <2>1, <2>2 DEF AnswerRecords, AnswerPCs, Tell
  <2>3. CASE new = Lose(r)
    BY <1>1, <1>2, <2>3 DEF AnswerRecords, AnswerPCs, Lose
  <2> QED
    BY <2>2, <2>3
<1>6. ~next.lost =>
         IsAnswer(next.kind, next.matches, next.told \o Displayed(rest))
  <2> SUFFICES ASSUME ~next.lost
               PROVE  next.told \o Displayed(rest) =
                         old.told \o Displayed(old.chunks)
    BY <1>1, <1>5
  <2>1. old.told \in Seq(Albums)
    BY <1>1 DEF AnswerRecords
  <2>2. Associates(Albums)
    BY Associative
  <2>3. next.told = old.told \o Shows(chunk)
    BY <1>5
  <2> HIDE DEF old, chunk, rest, next
  <2>4. (old.told \o Shows(chunk)) \o Displayed(rest) =
           old.told \o (Shows(chunk) \o Displayed(rest))
    BY <1>2, <2>1, <2>2, Zenon DEF Associates
  <2> QED
    BY <1>2, <2>3, <2>4
<1>7. rest = <<>> => (~next.lost => IsAnswer(next.kind, next.matches, next.told))
  <2> SUFFICES ASSUME rest = <<>>, ~next.lost
               PROVE  IsAnswer(next.kind, next.matches, next.told)
    OBVIOUS
  <2>1. Displayed(rest) = <<>>
    BY ShowsNone
  <2>2. next.told \in Seq(Albums)
    BY <1>5 DEF AnswerRecords
  <2>3. next.told \o Displayed(rest) = next.told
    BY <2>1, <2>2, ConcatEmptySeq
  <2> QED
    BY <1>6, <2>3
<1>8. RecordOK(w, next) /\ next.pc \in {"done", "send"}
  <2> HIDE DEF next, rest, old
  <2> QED
    BY <1>1, <1>3, <1>5, <1>6, <1>7 DEF RecordOK, Asked, Pending, Truthful
<1> QED
  <2>1. Become(w, next)
    BY <1>4
  <2> HIDE DEF next
  <2> QED
    BY <1>1, <1>8, <2>1, BecomeKeeps

LEMMA AskingIsBetween ==
    ASSUME FolderInv, NEW w \in Callers, AskFolder(w)
    PROVE  \A v \in Callers : call'[v] # "none" <=> call[v] # "none"
<1>1. call[w] # "none"
  BY DEF AskFolder, RLock, Check, ReadUnlocked, Lock, Recheck, Request, Calls
<1>2. PICK pc \in FolderPCs \ {"none"} : Move(w, pc)
  BY DEF AskFolder, RLock, Check, ReadUnlocked, Lock, Recheck, Request, FolderPCs
<1> QED
  BY <1>1, <1>2, MoveMoves DEF FolderInv

LEMMA AnswerInvariance == Spec => [](FolderInv /\ AnswerInv)
<1>1. Init => AnswerInv
  <2> SUFFICES ASSUME Init PROVE AnswerInv
    OBVIOUS
  <2>1. \A w \in Callers : /\ answer[w] = NoAnswer /\ call[w] = "none"
                           /\ RecordOK(w, NoAnswer)
    BY NoAnswerOK DEF Init, FolderInit
  <2>2. NoAnswer.pc # "folder"
    BY DEF NoAnswer
  <2> QED
    BY <2>1, <2>2 DEF Init, AnswerInv, At
<1>2. FolderInv /\ AnswerInv /\ [Next]_vars => AnswerInv'
  <2> SUFFICES ASSUME FolderInv, AnswerInv, [Next]_vars PROVE AnswerInv'
    OBVIOUS
  <2>1. ASSUME NEW w \in Callers, Receive(w) PROVE AnswerInv'
    BY <2>1, ReceiveKeeps
  <2>2. ASSUME NEW w \in Callers, InFolder(w) PROVE AnswerInv'
    <3>1. AskFolder(w) /\ answer' = answer
      BY <2>2 DEF InFolder
    <3>2. \A v \in Callers : call'[v] # "none" <=> call[v] # "none"
      BY <3>1, AskingIsBetween
    <3>3. \A v \in Callers : RecordOK(v, answer[v])' <=> RecordOK(v, answer[v])
      BY <3>1 DEF RecordOK, AnswerRecords, Asked, Pending, Truthful, Fits,
                  Texts, Blocks
    <3> QED
      BY <3>1, <3>2, <3>3 DEF AnswerInv, At
  <2>3. ASSUME NEW w \in Callers, Query(w) PROVE AnswerInv'
    BY <2>3, QueryKeeps
  <2>4. ASSUME NEW w \in Callers, List(w) PROVE AnswerInv'
    BY <2>4, ListKeeps
  <2>5. ASSUME NEW w \in Callers, SendPhoto(w) \/ SendMedia(w) PROVE AnswerInv'
    BY <2>5, SendPhotoKeeps
  <2>6. ASSUME NEW w \in Callers, SendChunk(w) PROVE AnswerInv'
    BY <2>6, SendChunkKeeps
  <2>7. ASSUME NEW w \in Callers, Done(w) PROVE AnswerInv'
    <3>1. /\ Become(w, NoAnswer) /\ call' = call /\ answer[w].pc = "done"
          /\ NoAnswer.pc = "idle"
      BY <2>7 DEF Done, End, At, foldervars, NoAnswer
    <3>2. call[w] = "none"
      BY <3>1 DEF AnswerInv, At
    <3> QED
      BY <3>1, <3>2, NoAnswerOK, BecomeKeeps
  <2>8. CASE Restart
    <3>1. \A w \in Callers : /\ answer'[w] = NoAnswer /\ call'[w] = "none"
                             /\ RecordOK(w, NoAnswer)
      BY <2>8, NoAnswerOK DEF Restart, FolderRestart
    <3>2. NoAnswer.pc # "folder"
      BY DEF NoAnswer
    <3>3. \A v \in Callers : RecordOK(v, answer[v])' <=> RecordOK(v, answer'[v])
      BY DEF RecordOK, AnswerRecords, Asked, Pending, Truthful, Fits, Texts, Blocks
    <3> QED
      BY <2>8, <3>1, <3>2, <3>3 DEF Restart, AnswerInv, At
  <2>9. CASE UNCHANGED vars
    <3>1. \A v \in Callers : RecordOK(v, answer[v])' <=> RecordOK(v, answer[v])
      BY <2>9 DEF vars, RecordOK, AnswerRecords, Asked, Pending, Truthful, Fits,
                  Texts, Blocks
    <3> QED
      BY <2>9, <3>1 DEF vars, foldervars, AnswerInv, At
  <2> QED
    BY <2>1, <2>2, <2>3, <2>4, <2>5, <2>6, <2>7, <2>8, <2>9 DEF Next, Proceed
<1> QED
  BY <1>1, <1>2, AnswersFollowFolder, FolderInvariance, PTL DEF Spec

\* The request of a handler has its fields, a kind that the handler is asked for,
\* and what belongs to its step: chunks while it sends, albums while it shows
\* photos, and a call of GetMusicFolderID while it waits for one.
THEOREM TypeCorrect == Spec => []TypeOK
<1>1. FolderInv /\ AnswerInv => TypeOK
  <2> SUFFICES ASSUME FolderInv, AnswerInv PROVE TypeOK
    OBVIOUS
  <2>1. ASSUME NEW w \in Callers
        PROVE  /\ answer[w] \in AnswerRecords /\ Asked(w, answer[w])
               /\ Pending(answer[w])
               /\ answer[w].pc = "folder" <=> call[w] # "none"
    BY DEF AnswerInv, RecordOK, At
  <2>2. ASSUME NEW w \in Callers
        PROVE  /\ answer[w].pc \in AnswerPCs
               /\ answer[w].matches \subseteq Albums
               /\ answer[w].albums \in Seq(Albums)
               /\ answer[w].chunks \in Seq(Texts)
               /\ answer[w].told \in Seq(Albums)
               /\ answer[w].lost \in BOOLEAN
    BY <2>1 DEF AnswerRecords
  <2>3. ASSUME NEW w \in Callers, NEW i \in DOMAIN answer[w].chunks
        PROVE  answer[w].chunks[i] \in Seq([shows : Seq(Albums), length : Nat])
    <3>1. answer[w].chunks[i] \in Texts
      BY <2>2
    <3> QED
      BY <3>1 DEF Texts, Blocks
  <2> QED
    BY <2>1, <2>2, <2>3 DEF FolderInv, TypeOK, Asked, Pending
<1> QED
  BY <1>1, AnswerInvariance, PTL

\* Whatever the lengths of the lines, a message over Telegram's limit is a single
\* block that is over it alone: SplitMessage (formatter.go:183-206) never puts two
\* blocks together that do not fit.
THEOREM BlocksOverflowAlone == Spec => []OnlyBlocksOverflow
<1>1. AnswerInv => OnlyBlocksOverflow
  BY DEF AnswerInv, RecordOK, Fits, OnlyBlocksOverflow
<1> QED
  BY <1>1, AnswerInvariance, PTL

\* For any library, limits and lengths: a chat from which no message was lost
\* shows just the albums that were asked for, in the order of the handler, none of
\* them lost or repeated by the cut into messages or the detour over photos.
THEOREM ChatsShowTheAnswer == Spec => []AnswersAreComplete
<1>1. AnswerInv => AnswersAreComplete
  BY DEF AnswerInv, RecordOK, Truthful, AnswersAreComplete, At
<1> QED
  BY <1>1, AnswerInvariance, PTL
=============================================================================
