---------------------------- MODULE Requests_proofs ----------------------------
(***************************************************************************)
(* Proofs about what the request service does for its clients, the         *)
(* sessions of its duplex handler and the authentication sessions they     *)
(* need for them, and about the client through which it asks the services  *)
(* behind it: for any number of messages, requests, restarts and tasks.    *)
(***************************************************************************)
EXTENDS Duplex, Sessions, ClientConnection, SequenceTheorems, FiniteSetTheorems, TLAPS

-----------------------------------------------------------------------------
(* The duplex handler: what sequences begin and end with *)

LEMMA PrefixPointwise ==
    ASSUME NEW S, NEW s \in Seq(S), NEW t \in Seq(S)
    PROVE  IsPrefix(s, t) <=> /\ Len(s) <= Len(t)
                              /\ \A i \in 1 .. Len(s) : s[i] = t[i]
<1>1. Len(s) \in Nat /\ Len(t) \in Nat
  BY LenProperties
<1>2. CASE Len(s) > Len(t)
  BY <1>1, <1>2 DEF IsPrefix
<1>3. CASE Len(s) <= Len(t)
  <2> DEFINE a == SubSeq(s, 1, Len(s))
             b == SubSeq(t, 1, Len(s))
  <2>1. /\ a \in Seq(S) /\ Len(a) = Len(s)
        /\ \A i \in 1 .. Len(s) : a[i] = s[i]
    BY <1>1, SubSeqProperties, ElementOfSeq
  <2>2. /\ b \in Seq(S) /\ Len(b) = Len(s)
        /\ \A i \in 1 .. Len(s) : b[i] = t[i]
    BY <1>1, <1>3, SubSeqProperties, ElementOfSeq
  <2> HIDE DEF a, b
  <2>3. a = b <=> \A i \in 1 .. Len(s) : s[i] = t[i]
    BY <2>1, <2>2, SeqEqual
  <2> QED BY <1>3, <2>3 DEF IsPrefix, a, b
<1> QED BY <1>1, <1>2, <1>3

LEMMA ReverseSeq ==
    ASSUME NEW S, NEW s \in Seq(S)
    PROVE  /\ Reverse(s) \in Seq(S) /\ Len(Reverse(s)) = Len(s)
           /\ \A i \in 1 .. Len(s) : Reverse(s)[i] = s[Len(s) - i + 1]
BY DEF Reverse

LEMMA SuffixPointwise ==
    ASSUME NEW S, NEW s \in Seq(S), NEW t \in Seq(S)
    PROVE  IsSuffix(s, t) <=>
             /\ Len(s) <= Len(t)
             /\ \A i \in 1 .. Len(s) : s[i] = t[Len(t) - Len(s) + i]
<1>1. Len(s) \in Nat /\ Len(t) \in Nat
  BY LenProperties
<1>2. IsSuffix(s, t) <=>
        /\ Len(s) <= Len(t)
        /\ \A i \in 1 .. Len(s) : s[Len(s) - i + 1] = t[Len(t) - i + 1]
  <2>1. IsSuffix(s, t) <=>
          /\ Len(Reverse(s)) <= Len(Reverse(t))
          /\ \A i \in 1 .. Len(Reverse(s)) : Reverse(s)[i] = Reverse(t)[i]
    BY ReverseSeq, PrefixPointwise DEF IsSuffix
  <2> QED BY <1>1, <2>1, ReverseSeq
<1>3. ASSUME Len(s) <= Len(t)
      PROVE  (\A i \in 1 .. Len(s) : s[Len(s) - i + 1] = t[Len(t) - i + 1])
               <=> \A i \in 1 .. Len(s) : s[i] = t[Len(t) - Len(s) + i]
  <2>1. ASSUME \A i \in 1 .. Len(s) : s[Len(s) - i + 1] = t[Len(t) - i + 1],
               NEW i \in 1 .. Len(s)
        PROVE  s[i] = t[Len(t) - Len(s) + i]
    <3> DEFINE j == Len(s) - i + 1
    <3>1. j \in 1 .. Len(s) /\ Len(s) - j + 1 = i
            /\ Len(t) - j + 1 = Len(t) - Len(s) + i
      BY <1>1
    <3> QED BY <2>1, <3>1
  <2>2. ASSUME \A i \in 1 .. Len(s) : s[i] = t[Len(t) - Len(s) + i],
               NEW i \in 1 .. Len(s)
        PROVE  s[Len(s) - i + 1] = t[Len(t) - i + 1]
    <3> DEFINE j == Len(s) - i + 1
    <3>1. j \in 1 .. Len(s) /\ Len(t) - Len(s) + j = Len(t) - i + 1
      BY <1>1
    <3> QED BY <2>2, <3>1
  <2> QED BY <2>1, <2>2
<1> QED BY <1>2, <1>3

LEMMA PartOfItself ==
    ASSUME NEW S, NEW s \in Seq(S)
    PROVE  IsPrefix(s, s) /\ IsSuffix(s, s)
<1>1. Len(s) \in Nat
  BY LenProperties
<1>2. IsPrefix(s, s)
  BY <1>1, PrefixPointwise
<1>3. \A i \in 1 .. Len(s) : s[i] = s[Len(s) - Len(s) + i]
  BY <1>1
<1> QED BY <1>1, <1>2, <1>3, SuffixPointwise

LEMMA SequencesOfPart ==
    ASSUME NEW S, NEW T, S \subseteq T, NEW s \in Seq(S)
    PROVE  s \in Seq(T)
BY SeqMonotonic

LEMMA PrefixOfAppend ==
    ASSUME NEW S, NEW s \in Seq(S), NEW t \in Seq(S), NEW e \in S, IsPrefix(s, t)
    PROVE  IsPrefix(s, Append(t, e))
<1> DEFINE b == Append(t, e)
<1>1. Len(s) <= Len(t) /\ \A i \in 1 .. Len(s) : s[i] = t[i]
  BY PrefixPointwise
<1>2. /\ b \in Seq(S) /\ Len(b) = Len(t) + 1
      /\ \A i \in 1 .. Len(t) : b[i] = t[i]
  BY AppendProperties
<1> HIDE DEF b
<1>3. Len(s) \in Nat /\ Len(t) \in Nat
  BY LenProperties
<1>4. \A i \in 1 .. Len(s) : s[i] = b[i]
  BY <1>1, <1>2, <1>3
<1>5. IsPrefix(s, b)
  BY <1>1, <1>2, <1>3, <1>4, PrefixPointwise
<1> QED BY <1>5 DEF b

LEMMA PrefixGrows ==
    ASSUME NEW S, NEW s \in Seq(S), NEW t \in Seq(S), IsPrefix(s, t),
           Len(s) < Len(t)
    PROVE  IsPrefix(Append(s, t[Len(s) + 1]), t)
<1>1. Len(s) <= Len(t) /\ \A i \in 1 .. Len(s) : s[i] = t[i]
  BY PrefixPointwise
<1>2. Len(s) \in Nat /\ Len(t) \in Nat
  BY LenProperties
<1> DEFINE e == t[Len(s) + 1]
<1>3. e \in S
  BY <1>2, ElementOfSeq
<1> DEFINE a == Append(s, e)
<1>4. /\ a \in Seq(S) /\ Len(a) = Len(s) + 1
      /\ \A i \in 1 .. Len(s) : a[i] = s[i]
      /\ a[Len(s) + 1] = e
  BY <1>3, AppendProperties
<1> HIDE DEF a
<1>5. \A i \in 1 .. Len(s) + 1 : a[i] = t[i]
  BY <1>1, <1>2, <1>4
<1>6. IsPrefix(a, t)
  BY <1>2, <1>4, <1>5, PrefixPointwise
<1> QED BY <1>6 DEF a

LEMMA WholePrefix ==
    ASSUME NEW S, NEW s \in Seq(S), NEW t \in Seq(S), IsPrefix(s, t),
           Len(s) = Len(t)
    PROVE  s = t
BY PrefixPointwise, SeqEqual

LEMMA SuffixesGrow ==
    ASSUME NEW S, NEW s \in Seq(S), NEW t \in Seq(S), NEW e \in S, IsSuffix(s, t)
    PROVE  IsSuffix(Append(s, e), Append(t, e))
<1> DEFINE a == Append(s, e)
           b == Append(t, e)
<1>1. /\ Len(s) <= Len(t)
      /\ \A i \in 1 .. Len(s) : s[i] = t[Len(t) - Len(s) + i]
  BY SuffixPointwise
<1>2. /\ a \in Seq(S) /\ Len(a) = Len(s) + 1
      /\ \A i \in 1 .. Len(s) : a[i] = s[i]
      /\ a[Len(s) + 1] = e
  BY AppendProperties
<1>3. /\ b \in Seq(S) /\ Len(b) = Len(t) + 1
      /\ \A i \in 1 .. Len(t) : b[i] = t[i]
      /\ b[Len(t) + 1] = e
  BY AppendProperties
<1>4. Len(s) \in Nat /\ Len(t) \in Nat
  BY LenProperties
<1> HIDE DEF a, b
<1>5. ASSUME NEW i \in 1 .. Len(a)
      PROVE  a[i] = b[Len(b) - Len(a) + i]
  <2>1. CASE i = Len(s) + 1
    BY <1>2, <1>3, <1>4, <2>1
  <2>2. CASE i \in 1 .. Len(s)
    <3>1. Len(t) - Len(s) + i \in 1 .. Len(t)
            /\ Len(b) - Len(a) + i = Len(t) - Len(s) + i
      BY <1>1, <1>2, <1>3, <1>4, <2>2
    <3> QED BY <1>1, <1>2, <1>3, <2>2, <3>1
  <2> QED BY <1>2, <1>4, <2>1, <2>2
<1>6. Len(a) <= Len(b)
  BY <1>1, <1>2, <1>3, <1>4
<1>7. IsSuffix(a, b)
  BY <1>2, <1>3, <1>5, <1>6, SuffixPointwise
<1> QED BY <1>7 DEF a, b

LEMMA TailOfSuffix ==
    ASSUME NEW S, NEW s \in Seq(S), NEW t \in Seq(S), IsSuffix(s, t), s # <<>>
    PROVE  IsSuffix(Tail(s), t) /\ Head(s) = t[Len(t) - Len(s) + 1]
<1> DEFINE r == Tail(s)
<1>1. /\ Len(s) <= Len(t)
      /\ \A i \in 1 .. Len(s) : s[i] = t[Len(t) - Len(s) + i]
  BY SuffixPointwise
<1>2. Len(s) \in Nat /\ Len(t) \in Nat /\ Len(s) > 0
  BY LenProperties, EmptySeq
<1>3. /\ r \in Seq(S) /\ Len(r) = Len(s) - 1
      /\ \A i \in 1 .. Len(r) : r[i] = s[i + 1]
  BY HeadTailProperties
<1> HIDE DEF r
<1>4. ASSUME NEW i \in 1 .. Len(r)
      PROVE  r[i] = t[Len(t) - Len(r) + i]
  <2>1. i + 1 \in 1 .. Len(s)
          /\ Len(t) - Len(s) + (i + 1) = Len(t) - Len(r) + i
    BY <1>2, <1>3
  <2> QED BY <1>1, <1>3, <2>1
<1>5. Len(r) <= Len(t)
  BY <1>1, <1>2, <1>3
<1>6. IsSuffix(r, t)
  BY <1>3, <1>4, <1>5, SuffixPointwise
<1>7. Head(s) = s[1]
  OBVIOUS
<1> QED BY <1>1, <1>2, <1>6, <1>7 DEF r

LEMMA ContainedWhenSuffixHolds ==
    ASSUME NEW S, NEW s \in Seq(S), NEW t \in Seq(S), IsSuffix(s, t), s # <<>>
    PROVE  Contains(t, Head(s))
<1>1. Len(s) <= Len(t) /\ Head(s) = t[Len(t) - Len(s) + 1]
  BY SuffixPointwise, TailOfSuffix
<1>2. Len(s) \in Nat /\ Len(t) \in Nat /\ Len(s) > 0
  BY LenProperties, EmptySeq
<1> QED BY <1>1, <1>2 DEF Contains

LEMMA ContainedInAppend ==
    ASSUME NEW S, NEW t \in Seq(S), NEW e \in S, NEW x, Contains(t, x)
    PROVE  Contains(Append(t, e), x)
BY AppendProperties, LenProperties DEF Contains

-----------------------------------------------------------------------------
(* The inductive invariant *)

Messages == 1 .. MaxMessages \union {End}

\* The source is connected from the start, the target once the handler is past
\* connecting, unless it refused; in the end it is not any more.
Links ==
    /\ link["source"] # "none"
    /\ stage \in {"idle", "connect"} => link["target"] = "none"
    /\ link["target"] = "none" =>
          /\ stage \in {"idle", "connect", "closing", "done"}
          /\ \A t \in Tasks : task[t] = "none"
    /\ stage = "done" => link["target"] # "open"

\* What the tasks may be doing, and whether an answer is known, at each stage of
\* the handler.
Phases ==
    /\ stage \in {"idle", "connect", "greet", "start"} =>
          \A t \in Tasks : task[t] = "none"
    /\ stage \in {"waiting", "cancel", "interrupted"} =>
          \A t \in Tasks : task[t] \in {"created", "running"} \union OwnEnds
    /\ stage = "aborted" =>
          /\ \A s \in Sides : task[s] = "none"
          /\ task["producer"] \in {"none", "created", "running"} \union OwnEnds
    /\ stage = "respond" =>
          /\ \A t \in Tasks : task[t] \in Ends \union {"none", "cancelling", "ignoring"}
          /\ response \in {"none", "interrupted", "failure"}
          /\ response # "failure" => \A t \in Tasks : task[t] # "none"
    /\ stage \in {"closing", "done"} =>
          \A t \in Tasks : task[t] \in Ends \union {"none", "ignoring"}
    /\ stage \notin {"respond", "closing", "done"} => response = "none"
    /\ response = "success" => \A t \in Tasks : task[t] # "ignoring"

\* Until there is an answer, only a launch has failed, whose answer is decided.
Blame ==
    /\ stage \in {"idle", "connect", "greet", "start", "waiting", "cancel",
                  "interrupted"} => faults = {}
    /\ stage = "aborted" => faults # {}
    /\ stage = "respond" => (faults = {} <=> response # "failure")

GoodCause == \E s \in Sides : link[s] = "closed" \/ Contains(said[s], End)
EndedOfItself == \E t \in Tasks : task[t] \in OwnEnds

\* What makes tasks end, and what has them cancelled.
Causes ==
    /\ (\E t \in Tasks : task[t] = "failed") => \E s \in Sides : link[s] = "broken"
    /\ (\E t \in Tasks : task[t] \in {"drained", "asked", "gone"}) => GoodCause
    /\ stage = "cancel" \/ (stage = "respond" /\ response = "none") => EndedOfItself
    /\ (\E s \in Sides : task[s] \in {"cancelling", "stopped", "unbegun", "ignoring"})
          => response = "interrupted" \/ EndedOfItself

Course == Links /\ Phases /\ Blame /\ Causes /\ VerdictHasCause

\* As long as its listener has lost nothing, all a side has said was repeated or
\* is yet to be read.  One that has read a closed connection to its end left
\* nothing, and one that was asked to disconnect has repeated all but that.
Channel(s) ==
    /\ task[s] \notin {"asked", "gone", "failed", "error"} =>
          Len(got[Other(s)]) + Len(inbox[s]) = Len(said[s])
    /\ task[s] = "drained" => inbox[s] = <<>> /\ link[s] = "closed"
    /\ task[s] = "asked" => /\ Contains(said[s], End)
                            /\ Len(got[Other(s)]) + 1 = Len(said[s])

\* Who asks to disconnect says no more.
LastWord(s) == \A i \in 1 .. Len(said[s]) - 1 : said[s][i] # End

DuplexIInv == /\ DuplexTypeOK /\ Course
              /\ \A s \in Sides : Channel(s) /\ LastWord(s)

-----------------------------------------------------------------------------
(* The steps *)

States == {"none", "created", "cancelling"} \union Going \union Ends

\* Types of what a step that leaves the network alone may change.
Control == /\ stage \in {"idle", "connect", "greet", "start", "waiting", "cancel",
                         "interrupted", "aborted", "respond", "closing", "done"}
           /\ task \in [Tasks -> States]
           /\ response \in {"none", "success", "failure", "interrupted"}
           /\ faults \subseteq {"greeting", "launch"} \union Tasks

LEMMA ControlTyped == DuplexTypeOK => Control
BY DEF DuplexTypeOK, Control, States

LEMMA Across ==
    ASSUME NEW s \in Sides
    PROVE  /\ Other(s) \in Sides /\ Other(s) # s /\ Other(Other(s)) = s
           /\ \A r \in Sides : r = s \/ r = Other(s)
BY DEF Sides, Other

LEMMA Streams ==
    ASSUME DuplexTypeOK, NEW s \in Sides
    PROVE  /\ said[s] \in Seq(Messages) /\ Len(said[s]) \in Nat
           /\ inbox[s] \in Seq(Messages) /\ Len(inbox[s]) \in Nat
           /\ got[Other(s)] \in Seq(1 .. MaxMessages)
           /\ got[Other(s)] \in Seq(Messages) /\ Len(got[Other(s)]) \in Nat
           /\ IsSuffix(inbox[s], said[s]) /\ IsPrefix(got[Other(s)], said[s])
<1>1. /\ said[s] \in Seq(Messages) /\ inbox[s] \in Seq(Messages)
      /\ got[Other(s)] \in Seq(1 .. MaxMessages)
  BY Across DEF DuplexTypeOK, Messages
<1>2. got[Other(s)] \in Seq(Messages)
  BY <1>1, SequencesOfPart DEF Messages
<1>3. IsSuffix(inbox[s], said[s]) /\ IsPrefix(got[Other(s)], said[s])
  BY Across DEF DuplexTypeOK
<1> QED BY <1>1, <1>2, <1>3, LenProperties

LEMMA DuplexInitHolds == DuplexInit => DuplexIInv
<1> SUFFICES ASSUME DuplexInit PROVE DuplexIInv
  OBVIOUS
<1> USE DEF DuplexInit, Sides, Tasks
<1>1. ASSUME NEW s \in Sides
      PROVE  /\ said[s] = <<>> /\ inbox[s] = <<>> /\ got[s] = <<>>
             /\ said[Other(s)] = <<>> /\ got[Other(s)] = <<>>
  BY <1>1 DEF Other
<1>2. <<>> \in Seq(Messages) /\ <<>> \in Seq(1 .. MaxMessages) /\ Len(<<>>) = 0
  BY EmptySeq
<1>3. IsPrefix(<<>>, <<>>) /\ IsSuffix(<<>>, <<>>)
  BY <1>2, PartOfItself
<1>4. DuplexTypeOK
  BY <1>1, <1>2, <1>3, DuplexAssumption DEF DuplexTypeOK, Messages
<1>5. Course
  BY DEF Course, Links, Phases, Blame, Causes, EndedOfItself, VerdictHasCause
<1>6. \A s \in Sides : Channel(s) /\ LastWord(s)
  BY <1>1, <1>2 DEF Channel, LastWord
<1> QED BY <1>4, <1>5, <1>6 DEF DuplexIInv

LEMMA SayKeeps ==
    ASSUME DuplexIInv, NEW s \in Sides, Say(s)
    PROVE  DuplexIInv'
<1> DEFINE o == Other(s)
<1>1. o \in Sides /\ o # s /\ Other(o) = s
        /\ \A r \in Sides : r = s \/ r = o
  BY Across
<1>2. PICK m :
         /\ m \in {Len(said[s]) + 1, End}
         /\ said' = [said EXCEPT ![s] = Append(@, m)]
         /\ inbox' = [inbox EXCEPT ![s] = Append(@, m)]
  BY DEF Say
<1>3. /\ said \in [Sides -> Seq(Messages)] /\ inbox \in [Sides -> Seq(Messages)]
      /\ said[s] \in Seq(Messages) /\ inbox[s] \in Seq(Messages)
      /\ got[o] \in Seq(Messages)
      /\ IsSuffix(inbox[s], said[s]) /\ IsPrefix(got[o], said[s])
      /\ Len(said[s]) < MaxMessages /\ ~Contains(said[s], End)
      /\ UNCHANGED <<link, got, news, stage, task, response, faults>>
  BY Streams DEF DuplexIInv, DuplexTypeOK, Messages, Say
<1>4. m \in Messages
  BY <1>2, <1>3, LenProperties, DuplexAssumption DEF Messages
<1> DEFINE S == Append(said[s], m)
           I == Append(inbox[s], m)
<1>5. /\ S \in Seq(Messages) /\ Len(S) = Len(said[s]) + 1
      /\ I \in Seq(Messages) /\ Len(I) = Len(inbox[s]) + 1
      /\ Len(said[s]) \in Nat /\ Len(inbox[s]) \in Nat /\ Len(got[o]) \in Nat
      /\ \A i \in 1 .. Len(said[s]) : S[i] = said[s][i]
  BY Streams, <1>3, <1>4, AppendProperties, LenProperties
<1>6. IsSuffix(I, S) /\ IsPrefix(got[o], S)
  BY <1>3, <1>4, SuffixesGrow, PrefixOfAppend
<1>7. \A x : Contains(said[s], x) => Contains(S, x)
  BY <1>3, <1>4, ContainedInAppend
<1>8. said' = [said EXCEPT ![s] = S] /\ inbox' = [inbox EXCEPT ![s] = I]
  BY <1>2
<1> HIDE DEF S, I, o
<1>9. DuplexTypeOK'
  <2>1. said' \in [Sides -> Seq(Messages)] /\ inbox' \in [Sides -> Seq(Messages)]
    BY <1>3, <1>5, <1>8
  <2>2. ASSUME NEW r \in Sides
        PROVE  /\ Len(said'[r]) <= MaxMessages
               /\ IsSuffix(inbox'[r], said'[r])
               /\ IsPrefix(got[r], said'[Other(r)])
    <3>1. CASE r = s
      <4>1. said'[r] = S /\ inbox'[r] = I /\ said'[Other(r)] = said[Other(r)]
        BY <1>1, <1>3, <1>8, <3>1 DEF o
      <4> QED BY <1>3, <1>5, <1>6, <3>1, <4>1, DuplexAssumption DEF DuplexIInv, DuplexTypeOK
    <3>2. CASE r = o
      <4>1. said'[r] = said[r] /\ inbox'[r] = inbox[r] /\ said'[Other(r)] = S
        BY <1>1, <1>3, <1>8, <3>2
      <4> QED BY <1>6, <3>2, <4>1 DEF DuplexIInv, DuplexTypeOK
    <3> QED BY <1>1, <3>1, <3>2
  <2> QED BY <1>3, <2>1, <2>2 DEF DuplexIInv, DuplexTypeOK, Messages
<1>10. \A r \in Sides : Channel(r)' /\ LastWord(r)'
  <2> SUFFICES ASSUME NEW r \in Sides PROVE Channel(r)' /\ LastWord(r)'
    OBVIOUS
  <2>1. CASE r = s
    <3>1. said'[s] = S /\ inbox'[s] = I
      BY <1>3, <1>8
    <3>2. link[s] = "open" /\ Channel(s)
      BY DEF DuplexIInv, Say
    <3>3. task[s] # "drained" /\ task[s] # "asked"
      BY <1>3, <3>2 DEF Channel
    <3> DEFINE g == Len(got[Other(s)])
               i == Len(inbox[s])
               l == Len(said[s])
    <3>4. /\ task'[s] = task[s]
          /\ g' = g /\ i' = i + 1 /\ l' = l + 1
          /\ g \in Nat /\ i \in Nat /\ l \in Nat
      BY <1>3, <1>5, <3>1 DEF o
    <3> HIDE DEF g, i, l
    <3>5. g + i = l => g' + i' = l'
      BY <3>4
    <3>6. Channel(s)'
      BY <3>2, <3>3, <3>4, <3>5 DEF Channel, g, i, l
    <3>7. LastWord(s)'
      <4>1. \A j \in 1 .. Len(said[s]) : said[s][j] # End
        BY <1>3 DEF Contains
      <4>2. 1 .. Len(S) - 1 = 1 .. Len(said[s])
        BY <1>5
      <4> QED BY <1>5, <3>1, <4>1, <4>2 DEF LastWord
    <3> QED BY <2>1, <3>6, <3>7
  <2>2. CASE r = o
    <3>1. said'[r] = said[r] /\ inbox'[r] = inbox[r]
      BY <1>1, <1>3, <1>8, <2>2
    <3> QED BY <1>3, <3>1 DEF DuplexIInv, Channel, LastWord
  <2> QED BY <1>1, <2>1, <2>2
<1>11. \A r \in Sides : Contains(said[r], End) => Contains(said'[r], End)
  BY <1>1, <1>3, <1>7, <1>8
<1>12. Links' /\ Phases' /\ Blame'
  BY <1>3 DEF DuplexIInv, Course, Links, Phases, Blame
<1>13. Causes' /\ VerdictHasCause'
  BY <1>3, <1>11 DEF DuplexIInv, Course, Causes, GoodCause, EndedOfItself, VerdictHasCause
<1> QED BY <1>9, <1>10, <1>12, <1>13 DEF DuplexIInv, Course

\* Steps in which nothing is said, read or repeated keep the channels.
LEMMA DuplexQuietKeeps ==
    ASSUME DuplexIInv, UNCHANGED <<said, inbox, got>>, Control',
           link' \in [Sides -> {"none", "open", "closed", "broken"}],
           news' \in 0 .. MaxNews,
           \A s \in Sides :
              /\ link[s] = "closed" => link'[s] = "closed"
              /\ task[s] \in {"asked", "gone", "failed", "error"} => task'[s] = task[s]
              /\ task'[s] = "asked" => task[s] = "asked"
              /\ task'[s] = "drained"
                    => \/ task[s] = "drained"
                       \/ inbox[s] = <<>> /\ link[s] = "closed"
    PROVE  DuplexTypeOK' /\ \A s \in Sides : Channel(s)' /\ LastWord(s)'
<1>1. DuplexTypeOK'
  BY DEF DuplexIInv, DuplexTypeOK, Control, States
<1>2. ASSUME NEW s \in Sides
      PROVE  Channel(s)'
  <2>1. Channel(s)
    BY DEF DuplexIInv
  <2> DEFINE level == Len(got[Other(s)]) + Len(inbox[s]) = Len(said[s])
             parted == /\ Contains(said[s], End)
                       /\ Len(got[Other(s)]) + 1 = Len(said[s])
  <2>2. level' = level /\ parted' = parted
    OBVIOUS
  <2> HIDE DEF level, parted
  <2>3. /\ task[s] \notin {"asked", "gone", "failed", "error"} => level
        /\ task[s] = "drained" => inbox[s] = <<>> /\ link[s] = "closed"
        /\ task[s] = "asked" => parted
    BY <2>1 DEF Channel, level, parted
  <2>4. /\ task'[s] \notin {"asked", "gone", "failed", "error"} => level'
        /\ task'[s] = "drained" => inbox'[s] = <<>> /\ link'[s] = "closed"
        /\ task'[s] = "asked" => parted'
    BY <2>2, <2>3
  <2> QED BY <2>4 DEF Channel, level, parted
<1>3. \A s \in Sides : LastWord(s)'
  BY DEF DuplexIInv, LastWord
<1> QED BY <1>1, <1>2, <1>3

LEMMA LeaveKeeps ==
    ASSUME DuplexIInv, NEW s \in Sides, Leave(s)
    PROVE  DuplexIInv'
<1> USE DEF Leave
<1>1. PICK end \in {"closed", "broken"} : link' = [link EXCEPT ![s] = end]
  OBVIOUS
<1>2. /\ link[s] = "open" /\ link'[s] = end
      /\ \A r \in Sides \ {s} : link'[r] = link[r]
      /\ link' \in [Sides -> {"none", "open", "closed", "broken"}]
  BY <1>1 DEF DuplexIInv, DuplexTypeOK
<1>3. DuplexTypeOK' /\ \A r \in Sides : Channel(r)' /\ LastWord(r)'
  BY <1>2, DuplexQuietKeeps, ControlTyped DEF DuplexIInv, DuplexTypeOK, Control
<1>4. Links' /\ Phases' /\ Blame'
  BY <1>2 DEF DuplexIInv, Course, Links, Phases, Blame, Sides
<1>5. Causes' /\ VerdictHasCause'
  BY <1>2 DEF DuplexIInv, Course, Causes, GoodCause, EndedOfItself, VerdictHasCause
<1> QED BY <1>3, <1>4, <1>5 DEF DuplexIInv, Course

LEMMA RequestKeeps ==
    ASSUME DuplexIInv, Request
    PROVE  DuplexIInv'
<1> USE DEF Request, network
<1>1. DuplexTypeOK' /\ \A s \in Sides : Channel(s)' /\ LastWord(s)'
  BY DuplexQuietKeeps DEF DuplexIInv, DuplexTypeOK, Control, States
<1>2. Course'
  BY DEF DuplexIInv, Course, Links, Phases, Blame, Causes, GoodCause, EndedOfItself,
         VerdictHasCause
<1> QED BY <1>1, <1>2 DEF DuplexIInv

\* Before there are tasks, an exception is answered as the cause demands.
LEMMA RaisedEarly ==
    ASSUME DuplexIInv, stage \in {"connect", "greet"}, UNCHANGED <<network, task>>,
           NEW kind \in {"closed", "broken", "refused", "error"}, Raise(kind),
           faults' \subseteq {"greeting", "launch"},
           kind = "closed" => faults' = {} /\ \E s \in Sides : link[s] = "closed",
           kind = "broken" => \E s \in Sides : link[s] = "broken",
           kind = "refused" => link["target"] = "none",
           kind = "error" => faults' # {}
    PROVE  DuplexIInv'
<1> USE DEF Raise, network
<1>1. /\ stage' = "closing" /\ response' \in {"success", "failure"}
      /\ response' = "success" <=> kind = "closed"
      /\ \A t \in Tasks : task[t] = "none"
      /\ Sides \subseteq Tasks /\ "target" \in Sides
  BY DEF DuplexIInv, Course, Phases, Tasks, Sides
<1>2. DuplexTypeOK' /\ \A s \in Sides : Channel(s)' /\ LastWord(s)'
  BY <1>1, DuplexQuietKeeps DEF DuplexIInv, DuplexTypeOK, Control, States
<1>3. Links' /\ Phases' /\ Blame'
  BY <1>1 DEF DuplexIInv, Course, Links, Phases, Blame
<1>4. Causes'
  BY <1>1 DEF Causes
<1>5. VerdictHasCause'
  BY <1>1 DEF VerdictHasCause
<1> QED BY <1>2, <1>3, <1>4, <1>5 DEF DuplexIInv, Course

LEMMA ConnectKeeps ==
    ASSUME DuplexIInv, Connect
    PROVE  DuplexIInv'
<1>1. /\ link["target"] = "none" /\ response = "none" /\ faults = {}
      /\ \A t \in Tasks : task[t] = "none"
      /\ stage = "connect" /\ UNCHANGED <<said, inbox, got, news, task, faults>>
  BY DEF DuplexIInv, Course, Links, Phases, Blame, Connect
<1>2. CASE /\ link' = [link EXCEPT !["target"] = "open"]
           /\ stage' = "greet" /\ UNCHANGED response
  <2>1. /\ link'["target"] = "open" /\ link'["source"] = link["source"]
        /\ link' \in [Sides -> {"none", "open", "closed", "broken"}]
    BY <1>2 DEF DuplexIInv, DuplexTypeOK, Sides
  <2>2. DuplexTypeOK' /\ \A s \in Sides : Channel(s)' /\ LastWord(s)'
    BY <1>1, <1>2, <2>1, DuplexQuietKeeps
    DEF DuplexIInv, DuplexTypeOK, Control, States, Sides
  <2>3. Links' /\ Phases' /\ Blame'
    BY <1>1, <1>2, <2>1 DEF DuplexIInv, Course, Links, Phases, Blame
  <2>4. Causes' /\ VerdictHasCause'
    BY <1>1, <1>2 DEF Causes, VerdictHasCause, Tasks
  <2> QED BY <2>2, <2>3, <2>4 DEF DuplexIInv, Course
<1>3. CASE Raise("refused") /\ UNCHANGED link
  BY <1>1, <1>3, RaisedEarly DEF network
<1> QED BY <1>2, <1>3 DEF Connect

LEMMA GreetKeeps ==
    ASSUME DuplexIInv, Greet
    PROVE  DuplexIInv'
<1>1. /\ stage = "greet" /\ response = "none" /\ faults = {}
      /\ "source" \in Sides /\ "target" \in Sides
      /\ link["target"] # "none" /\ link["source"] # "none"
      /\ \A s \in Sides : link[s] \in {"none", "open", "closed", "broken"}
      /\ \A t \in Tasks : task[t] = "none"
      /\ UNCHANGED <<network, task>>
  BY DEF DuplexIInv, Course, DuplexTypeOK, Links, Phases, Blame, Sides, Greet
<1>2. CASE \E s \in Sides : link[s] # "open" /\ Raise(link[s]) /\ UNCHANGED faults
  <2>1. PICK s \in Sides : link[s] # "open" /\ Raise(link[s]) /\ UNCHANGED faults
    BY <1>2
  <2>2. link[s] \in {"closed", "broken"}
    BY <1>1, <2>1 DEF Sides
  <2> QED BY <1>1, <2>1, <2>2, RaisedEarly
<1>3. CASE Raise("error") /\ faults' = {"greeting"}
  BY <1>1, <1>3, RaisedEarly
<1>4. CASE stage' = "start" /\ UNCHANGED <<response, faults>>
  <2> USE DEF network
  <2>1. DuplexTypeOK' /\ \A s \in Sides : Channel(s)' /\ LastWord(s)'
    BY <1>1, <1>4, DuplexQuietKeeps DEF DuplexIInv, DuplexTypeOK, Control, States
  <2>2. Course'
    BY <1>1, <1>4
    DEF DuplexIInv, Course, Links, Phases, Blame, Causes, EndedOfItself, GoodCause,
        VerdictHasCause
  <2> QED BY <2>1, <2>2 DEF DuplexIInv
<1> QED BY <1>1, <1>2, <1>3, <1>4 DEF Greet

LEMMA StartKeeps ==
    ASSUME DuplexIInv, Start
    PROVE  DuplexIInv'
<1> USE DEF network
<1>1. /\ stage = "start" /\ response = "none" /\ faults = {}
      /\ \A t \in Tasks : task[t] = "none"
      /\ Sides \subseteq Tasks /\ "producer" \in Tasks /\ "producer" \notin Sides
      /\ UNCHANGED <<link, said, inbox, got, news, response>>
      /\ task \in [Tasks -> States]
  BY ControlTyped DEF DuplexIInv, Course, Phases, Blame, Tasks, Sides, Start, Control
<1>2. CASE /\ task' = [t \in Tasks |-> "created"]
           /\ stage' = "waiting" /\ UNCHANGED faults
  <2>1. \A t \in Tasks : task'[t] = "created"
    BY <1>2
  <2>2. DuplexTypeOK' /\ \A s \in Sides : Channel(s)' /\ LastWord(s)'
    BY <1>1, <1>2, <2>1, DuplexQuietKeeps DEF DuplexIInv, DuplexTypeOK, Control, States
  <2>3. Links' /\ Phases' /\ Blame'
    BY <1>1, <1>2, <2>1 DEF DuplexIInv, Course, Links, Phases, Blame
  <2>4. Causes' /\ VerdictHasCause'
    BY <1>1, <1>2, <2>1 DEF Causes, VerdictHasCause
  <2> QED BY <2>2, <2>3, <2>4 DEF DuplexIInv, Course
<1>3. ASSUME NEW earlier \in {"none", "created"},
             task' = [task EXCEPT !["producer"] = earlier],
             stage' = "aborted", faults' = {"launch"}
      PROVE  DuplexIInv'
  <2>1. /\ task'["producer"] = earlier /\ task' \in [Tasks -> States]
        /\ \A s \in Sides : task'[s] = "none"
        /\ \A t \in Tasks : task'[t] \in {"none", "created"}
    BY <1>1, <1>3 DEF States
  <2>2. DuplexTypeOK' /\ \A s \in Sides : Channel(s)' /\ LastWord(s)'
    BY <1>1, <1>3, <2>1, DuplexQuietKeeps DEF DuplexIInv, DuplexTypeOK, Control
  <2>3. Links' /\ Phases' /\ Blame'
    BY <1>1, <1>3, <2>1 DEF DuplexIInv, Course, Links, Phases, Blame
  <2>4. Causes' /\ VerdictHasCause'
    BY <1>1, <1>3, <2>1 DEF Causes, VerdictHasCause
  <2> QED BY <2>2, <2>3, <2>4 DEF DuplexIInv, Course
<1> QED BY <1>2, <1>3 DEF Start

LEMMA FirstCompletedKeeps ==
    ASSUME DuplexIInv, FirstCompleted
    PROVE  DuplexIInv'
<1> USE DEF FirstCompleted, network
<1>1. DuplexTypeOK' /\ \A s \in Sides : Channel(s)' /\ LastWord(s)'
  BY DuplexQuietKeeps DEF DuplexIInv, DuplexTypeOK, Control, States
<1>2. Links' /\ Phases' /\ Blame'
  BY DEF DuplexIInv, Course, Links, Phases, Blame
<1>3. EndedOfItself
  BY DEF DuplexIInv, Course, Phases, Ends, OwnEnds, EndedOfItself
<1>4. Causes' /\ VerdictHasCause'
  BY <1>3 DEF DuplexIInv, Course, Causes, GoodCause, EndedOfItself, VerdictHasCause
<1> QED BY <1>1, <1>2, <1>4 DEF DuplexIInv, Course

LEMMA InterruptKeeps ==
    ASSUME DuplexIInv, Interrupt
    PROVE  DuplexIInv'
<1> USE DEF Interrupt, network
<1>1. DuplexTypeOK' /\ \A s \in Sides : Channel(s)' /\ LastWord(s)'
  BY DuplexQuietKeeps DEF DuplexIInv, DuplexTypeOK, Control, States
<1>2. Course'
  BY DEF DuplexIInv, Course, Links, Phases, Blame, Causes, GoodCause, EndedOfItself,
         VerdictHasCause
<1> QED BY <1>1, <1>2 DEF DuplexIInv

LEMMA CancelKeeps ==
    ASSUME DuplexIInv, Cancel
    PROVE  DuplexIInv'
<1> USE DEF Cancel, network
<1>1. /\ response = "none" /\ Sides \subseteq Tasks
      /\ Tasks = Sides \union {"producer"}
      /\ stage # "aborted" =>
           faults = {} /\ \A t \in Tasks : task[t] \in {"created", "running"} \union OwnEnds
      /\ stage = "aborted" =>
           /\ faults # {} /\ \A s \in Sides : task[s] = "none"
           /\ task["producer"] \in {"none", "created", "running"} \union OwnEnds
  BY DEF DuplexIInv, Course, Phases, Blame, Tasks
<1>2. ASSUME NEW t \in Tasks
      PROVE  /\ task[t] = "created" => task'[t] = "unbegun"
             /\ task[t] = "running" => task'[t] = "cancelling"
             /\ task[t] \in OwnEnds \union {"none"} => task'[t] = task[t]
  <2>1. task'[t] = Cancelled(t)
    OBVIOUS
  <2> QED BY <2>1 DEF Cancelled, OwnEnds
<1>3. \A t \in Tasks : task'[t] \in OwnEnds \union {"none", "cancelling", "unbegun"}
  BY <1>1, <1>2
<1>4. /\ \A t \in Tasks : task'[t] \in OwnEnds => task'[t] = task[t]
      /\ EndedOfItself => EndedOfItself'
  BY <1>1, <1>2 DEF OwnEnds, EndedOfItself
<1>5. /\ stage = "interrupted" => response' = "interrupted"
      /\ stage = "aborted" => response' = "failure"
      /\ stage = "cancel" => response' = "none"
      /\ stage \in {"interrupted", "aborted", "cancel"} /\ stage' = "respond"
      /\ UNCHANGED <<link, said, inbox, got, news, faults>>
  BY <1>1
<1>6. DuplexTypeOK' /\ \A s \in Sides : Channel(s)' /\ LastWord(s)'
  <2>1. task' \in [Tasks -> States]
    BY <1>3 DEF States, Ends
  <2>2. \A s \in Sides :
           /\ task'[s] \in {"asked", "drained"} => task[s] = task'[s]
           /\ task[s] \in {"asked", "gone", "failed", "error"} => task'[s] = task[s]
    BY <1>1, <1>2, <1>4 DEF OwnEnds
  <2>3. Control'
    BY <1>5, <2>1 DEF DuplexIInv, DuplexTypeOK, Control
  <2> QED BY <1>5, <2>2, <2>3, DuplexQuietKeeps DEF DuplexIInv, DuplexTypeOK
<1>7. Links' /\ Blame'
  BY <1>1, <1>5 DEF DuplexIInv, Course, Links, Blame
<1>8. Phases'
  <2>1. \A t \in Tasks : task'[t] \in Ends \union {"none", "cancelling", "ignoring"}
    BY <1>3 DEF Ends
  <2>2. stage # "aborted" => \A t \in Tasks : task'[t] # "none"
    BY <1>1, <1>2 DEF OwnEnds
  <2> QED BY <1>5, <2>1, <2>2 DEF Phases
<1>9. Causes'
  <2>1. \A t \in Tasks : /\ task'[t] = "failed" => task[t] = "failed"
                         /\ task'[t] \in {"drained", "asked", "gone"} => task[t] = task'[t]
    BY <1>4 DEF OwnEnds
  <2>2. (\E s \in Sides : task'[s] \in {"cancelling", "stopped", "unbegun", "ignoring"})
           => stage # "aborted"
    BY <1>1, <1>2
  <2> QED BY <1>4, <1>5, <2>1, <2>2 DEF DuplexIInv, Course, Causes, GoodCause
<1>10. VerdictHasCause'
  BY <1>1, <1>5 DEF VerdictHasCause
<1> QED BY <1>6, <1>7, <1>8, <1>9, <1>10 DEF DuplexIInv, Course

LEMMA RespondKeeps ==
    ASSUME DuplexIInv, Respond
    PROVE  DuplexIInv'
<1> USE DEF Respond, network
<1>1. /\ stage = "respond" /\ response \in {"none", "interrupted", "failure"}
      /\ \A t \in Tasks : task[t] \in Ends \union {"none", "ignoring"}
      /\ response # "failure" => \A t \in Tasks : task[t] # "none"
      /\ faults = {} <=> response # "failure"
      /\ response = "none" => EndedOfItself
  BY DEF DuplexIInv, Course, Phases, Blame, Causes
<1>2. /\ response # "none" => response' = response
      /\ response = "none" /\ (\A t \in Tasks : Succeeded(t)) => response' = "success"
      /\ response = "none" /\ ~(\A t \in Tasks : Succeeded(t)) => response' = "failure"
      /\ response' \in {"interrupted", "success", "failure"}
  BY <1>1 DEF Verdict
<1>3. DuplexTypeOK' /\ \A s \in Sides : Channel(s)' /\ LastWord(s)'
  <2>1. Control'
    BY <1>2, ControlTyped DEF DuplexIInv, Control, Outlasting
  <2> QED BY <2>1, DuplexQuietKeeps DEF DuplexIInv, DuplexTypeOK
<1>4. response' = "success" => \A t \in Tasks : Succeeded(t)
  BY <1>1, <1>2
<1>5. Links' /\ Blame'
  BY DEF DuplexIInv, Course, Links, Blame
<1>6. Phases'
  BY <1>1, <1>4 DEF Phases, Succeeded
<1>7. Causes'
  BY <1>1, <1>2 DEF DuplexIInv, Course, Causes, GoodCause, EndedOfItself
<1>8. ASSUME response' = "failure"
      PROVE  \/ \E s \in Sides : link[s] \in {"none", "broken"}
             \/ \E t \in Tasks : task[t] \in {"raised", "error"}
             \/ faults' # {}
  <2>1. CASE response = "failure"
    BY <1>1, <2>1
  <2>2. CASE response # "failure"
    <3>1. PICK t \in Tasks : ~Succeeded(t)
      BY <1>1, <1>2, <1>8, <2>2
    <3>2. task[t] \in {"failed", "raised", "error", "ignoring"}
      BY <1>1, <2>2, <3>1 DEF Succeeded, Ends, OwnEnds
    <3> QED BY <3>2 DEF DuplexIInv, Course, Causes, Outlasting
  <2> QED BY <2>1, <2>2
<1>9. ASSUME response' = "success"
      PROVE  GoodCause /\ faults' = {}
  <2>1. response = "none" /\ \A t \in Tasks : Succeeded(t)
    BY <1>1, <1>2, <1>9
  <2>2. GoodCause
    BY <1>1, <2>1 DEF EndedOfItself, OwnEnds, Succeeded, DuplexIInv, Course, Causes
  <2>3. Outlasting = {}
    BY <2>1 DEF Outlasting, Succeeded
  <2> QED BY <1>1, <2>1, <2>2, <2>3
<1>10. VerdictHasCause'
  BY <1>8, <1>9 DEF VerdictHasCause, GoodCause
<1> QED BY <1>3, <1>5, <1>6, <1>7, <1>10 DEF DuplexIInv, Course

LEMMA CloseKeeps ==
    ASSUME DuplexIInv, Close
    PROVE  DuplexIInv'
<1> USE DEF Close
<1>1. /\ \A s \in Sides : link[s] \in {"none", "closed", "broken"} => link'[s] = link[s]
      /\ link'["target"] # "open" /\ link'["source"] = link["source"]
      /\ link["target"] = "open" => link'["target"] = "closed"
      /\ link' \in [Sides -> {"none", "open", "closed", "broken"}]
  BY DEF DuplexIInv, DuplexTypeOK, Sides
<1>2. DuplexTypeOK' /\ \A s \in Sides : Channel(s)' /\ LastWord(s)'
  BY <1>1, DuplexQuietKeeps DEF DuplexIInv, DuplexTypeOK, Control, States
<1>3. Links' /\ Phases' /\ Blame'
  BY <1>1 DEF DuplexIInv, Course, Links, Phases, Blame
<1>4. Causes' /\ VerdictHasCause'
  BY <1>1 DEF DuplexIInv, Course, Causes, GoodCause, EndedOfItself, VerdictHasCause
<1> QED BY <1>2, <1>3, <1>4 DEF DuplexIInv, Course

\* The tasks.

LEMMA GoingOn ==
    ASSUME DuplexIInv, NEW t \in Tasks, task[t] \in {"created", "cancelling"} \union Going
    PROVE  /\ task[t] \in {"created", "running"} =>
                stage \in {"waiting", "cancel", "interrupted", "aborted"}
           /\ stage = "aborted" => t = "producer"
           /\ task[t] = "cancelling" => stage = "respond"
           /\ task[t] = "ignoring" => stage \in {"respond", "closing", "done"}
           /\ task[t] = "ignoring" \/ stage = "respond" => response # "success"
           /\ stage \notin {"respond", "closing", "done"} => response = "none"
           /\ link["source"] # "none"
           /\ t \in Sides => link["target"] # "none"
<1>1. link["source"] # "none" /\ link["target"] # "none"
  BY DEF DuplexIInv, Course, Links, Going
<1>2. Sides \subseteq Tasks /\ Tasks = Sides \union {"producer"}
  BY DEF Tasks
<1>3. stage \in {"idle", "connect", "greet", "start", "waiting", "cancel",
                 "interrupted", "aborted", "respond", "closing", "done"}
  BY DEF DuplexIInv, DuplexTypeOK
<1>4. Phases
  BY DEF DuplexIInv, Course
<1>5. stage \notin {"idle", "connect", "greet", "start"}
  BY <1>4 DEF Phases, Going
<1> QED BY <1>1, <1>2, <1>3, <1>4, <1>5 DEF Phases, Going, Ends, OwnEnds

\* A task that goes on takes a step of its own: it begins, it heeds its cancellation
\* or not, or it ends of itself, for a cause that fits.
LEMMA TaskSteps ==
    ASSUME DuplexIInv, NEW t \in Tasks, NEW e \in States,
           task' = [task EXCEPT ![t] = e],
           UNCHANGED <<link, said, stage, response, faults>>,
           \/ task[t] = "created" /\ e \in {"running", "raised"}
           \/ task[t] = "cancelling" /\ e \in {"stopped", "ignoring"}
           \/ task[t] \in Going /\ e \in {task[t], "drained", "asked", "gone", "failed", "error"},
           e \in {"drained", "asked", "gone"} => GoodCause,
           e = "failed" => \E s \in Sides : link[s] = "broken"
    PROVE  /\ Control' /\ task'[t] = e /\ \A u \in Tasks \ {t} : task'[u] = task[u]
           /\ Course'
<1>1. /\ task'[t] = e /\ \A u \in Tasks \ {t} : task'[u] = task[u]
      /\ task' \in [Tasks -> States]
  BY ControlTyped DEF DuplexIInv, Control
<1>2. Control'
  BY <1>1, ControlTyped DEF DuplexIInv, Control
<1>3. /\ task[t] \in {"created", "cancelling"} \union Going
      /\ Sides \subseteq Tasks
  BY DEF Tasks
<1>4. /\ task[t] \in {"created", "running"} =>
           stage \in {"waiting", "cancel", "interrupted", "aborted"}
      /\ stage = "aborted" => t = "producer"
      /\ task[t] = "cancelling" => stage = "respond"
      /\ task[t] = "ignoring" => stage \in {"respond", "closing", "done"}
      /\ task[t] = "ignoring" \/ stage = "respond" => response # "success"
      /\ stage \notin {"respond", "closing", "done"} => response = "none"
  BY <1>3, GoingOn
<1>5. /\ e \in {"running", "stopped", "ignoring"} \union OwnEnds
      /\ e = "running" => task[t] \in {"created", "running"}
      /\ e = "stopped" => task[t] = "cancelling"
      /\ e = "ignoring" => task[t] \in {"cancelling", "ignoring"}
      /\ task[t] = "created" \/ e # "raised"
  BY DEF Going, OwnEnds
<1>6. Phases'
  <2>1. Phases
    BY DEF DuplexIInv, Course
  <2>2. CASE stage \in {"waiting", "cancel", "interrupted"}
    <3>1. e \in {"running"} \union OwnEnds
      BY <1>3, <1>4, <1>5, <2>2 DEF Going
    <3>2. \A u \in Tasks : task'[u] \in {"created", "running"} \union OwnEnds
      BY <1>1, <2>1, <2>2, <3>1 DEF Phases
    <3>3. response' = "none"
      BY <1>4, <2>2
    <3> QED BY <2>2, <3>2, <3>3 DEF Phases
  <2>3. CASE stage = "aborted"
    <3>1. e \in {"running"} \union OwnEnds /\ t = "producer" /\ t \notin Sides
      BY <1>3, <1>4, <1>5, <2>3 DEF Going, Sides
    <3>2. /\ \A r \in Sides : task'[r] = "none"
          /\ task'["producer"] \in {"none", "created", "running"} \union OwnEnds
      BY <1>1, <1>3, <2>1, <2>3, <3>1 DEF Phases
    <3>3. response' = "none"
      BY <1>4, <2>3
    <3> QED BY <2>3, <3>2, <3>3 DEF Phases
  <2>4. CASE stage = "respond"
    <3>1. e \in Ends \union {"ignoring"} /\ e # "none" /\ response # "success"
      BY <1>3, <1>4, <1>5, <2>4 DEF Going, Ends, OwnEnds
    <3>2. /\ \A u \in Tasks : task'[u] \in Ends \union {"none", "cancelling", "ignoring"}
          /\ response \in {"none", "interrupted", "failure"}
          /\ response # "failure" => \A u \in Tasks : task'[u] # "none"
      BY <1>1, <2>1, <2>4, <3>1 DEF Phases
    <3> QED BY <2>4, <3>1, <3>2 DEF Phases
  <2>5. CASE stage \in {"closing", "done"}
    <3>1. e \in Ends \union {"ignoring"} /\ task[t] = "ignoring" /\ response # "success"
      BY <1>3, <1>4, <1>5, <2>5 DEF Going, Ends, OwnEnds
    <3>2. \A u \in Tasks : task'[u] \in Ends \union {"none", "ignoring"}
      BY <1>1, <2>1, <2>5, <3>1 DEF Phases
    <3> QED BY <2>5, <3>1, <3>2 DEF Phases
  <2>6. CASE stage \in {"idle", "connect", "greet", "start"}
    BY <1>3, <2>1, <2>6 DEF Phases, Going
  <2>7. stage \in {"idle", "connect", "greet", "start", "waiting", "cancel",
                   "interrupted", "aborted", "respond", "closing", "done"}
    BY DEF DuplexIInv, DuplexTypeOK
  <2> QED BY <2>2, <2>3, <2>4, <2>5, <2>6, <2>7
<1>7. EndedOfItself => EndedOfItself'
  BY <1>1, <1>3 DEF EndedOfItself, OwnEnds, Going
<1>8. Causes'
  <2>1. Causes
    BY DEF DuplexIInv, Course
  <2>2. (\E u \in Tasks : task'[u] = "failed") => \E s \in Sides : link'[s] = "broken"
    BY <1>1, <2>1 DEF Causes
  <2>3. (\E u \in Tasks : task'[u] \in {"drained", "asked", "gone"}) => GoodCause'
    BY <1>1, <2>1 DEF Causes, GoodCause
  <2>4. (\E s \in Sides : task'[s] \in {"cancelling", "stopped", "unbegun", "ignoring"})
           => response = "interrupted" \/ EndedOfItself
    BY <1>1, <1>3, <2>1 DEF Causes, Going
  <2> QED BY <1>7, <2>1, <2>2, <2>3, <2>4 DEF Causes
<1>9. VerdictHasCause'
  <2>1. (\E u \in Tasks : task[u] \in {"raised", "error"})
           => \E u \in Tasks : task'[u] \in {"raised", "error"}
    BY <1>1 DEF Going
  <2> QED BY <2>1 DEF DuplexIInv, Course, VerdictHasCause
<1>10. Links' /\ Blame'
  <2>1. link["target"] # "none"
    BY <1>3 DEF DuplexIInv, Course, Links, Going
  <2> QED BY <2>1 DEF DuplexIInv, Course, Links, Blame
<1> QED BY <1>1, <1>2, <1>6, <1>8, <1>9, <1>10 DEF Course

LEMMA BeginKeeps ==
    ASSUME DuplexIInv, NEW t \in Tasks, Begin(t)
    PROVE  DuplexIInv'
<1> USE DEF Begin, network
<1>1. PICK e \in {"raised", "running"} : task' = [task EXCEPT ![t] = e]
  OBVIOUS
<1>2. /\ Control' /\ task'[t] = e /\ \A u \in Tasks \ {t} : task'[u] = task[u]
      /\ Course' /\ Sides \subseteq Tasks
  <2>1. e \in States /\ e \notin {"drained", "asked", "gone", "failed"}
    BY DEF States, Going, Ends, OwnEnds
  <2> QED BY <1>1, <2>1, TaskSteps DEF Tasks
<1>3. DuplexTypeOK' /\ \A s \in Sides : Channel(s)' /\ LastWord(s)'
  BY <1>2, DuplexQuietKeeps DEF DuplexIInv, DuplexTypeOK
<1> QED BY <1>2, <1>3 DEF DuplexIInv

LEMMA NoticeKeeps ==
    ASSUME DuplexIInv, NEW t \in Tasks, Notice(t)
    PROVE  DuplexIInv'
<1> USE DEF Notice, network
<1>1. PICK e \in {"stopped", "ignoring"} : task' = [task EXCEPT ![t] = e]
  OBVIOUS
<1>2. /\ Control' /\ task'[t] = e /\ \A u \in Tasks \ {t} : task'[u] = task[u]
      /\ Course' /\ Sides \subseteq Tasks
  <2>1. e \in States /\ e \notin {"drained", "asked", "gone", "failed"}
    BY DEF States, Going, Ends, OwnEnds
  <2> QED BY <1>1, <2>1, TaskSteps DEF Tasks
<1>3. DuplexTypeOK' /\ \A s \in Sides : Channel(s)' /\ LastWord(s)'
  BY <1>2, DuplexQuietKeeps DEF DuplexIInv, DuplexTypeOK
<1> QED BY <1>2, <1>3 DEF DuplexIInv

\* What a task finds whose connection is gone.
LEMMA GoneFits ==
    ASSUME DuplexIInv, NEW s \in Sides, link[s] \notin {"none", "open"},
           NEW end \in {"drained", "gone"}
    PROVE  /\ Gone(s, end) \in {end, "failed"} /\ Gone(s, end) \in States
           /\ Gone(s, end) = end => /\ GoodCause
                                   /\ link[s] = "closed"
           /\ Gone(s, end) = "failed" => \E r \in Sides : link[r] = "broken"
<1>1. link[s] \in {"closed", "broken"}
  BY DEF DuplexIInv, DuplexTypeOK
<1> QED BY <1>1 DEF Gone, GoodCause, States, Ends, OwnEnds

LEMMA HearEndKeeps ==
    ASSUME DuplexIInv, NEW s \in Sides, HearEnd(s)
    PROVE  DuplexIInv'
<1> USE DEF HearEnd, network
<1>1. s \in Tasks /\ link[s] \notin {"none", "open"} /\ Sides \subseteq Tasks
  BY GoingOn DEF Tasks, Sides
<1>2. PICK e \in States : e = Gone(s, "drained")
  BY <1>1, GoneFits
<1>3. /\ e \in {"drained", "failed"}
      /\ e = "drained" => /\ GoodCause
                         /\ link[s] = "closed"
      /\ e = "failed" => \E r \in Sides : link[r] = "broken"
  BY <1>1, <1>2, GoneFits
<1>4. /\ Control' /\ task'[s] = e /\ \A u \in Tasks \ {s} : task'[u] = task[u]
      /\ Course'
  BY <1>1, <1>2, <1>3, TaskSteps
<1>5. \A r \in Sides :
         /\ task[r] \in {"asked", "gone", "failed", "error"} => task'[r] = task[r]
         /\ task'[r] = "asked" => task[r] = "asked"
         /\ task'[r] = "drained"
               => \/ task[r] = "drained"
                  \/ inbox[r] = <<>> /\ link[r] = "closed"
  BY <1>1, <1>3, <1>4 DEF Going
<1>6. DuplexTypeOK' /\ \A r \in Sides : Channel(r)' /\ LastWord(r)'
  BY <1>4, <1>5, DuplexQuietKeeps DEF DuplexIInv, DuplexTypeOK
<1> QED BY <1>4, <1>6 DEF DuplexIInv

LEMMA ProduceKeeps ==
    ASSUME DuplexIInv, Produce
    PROVE  DuplexIInv'
<1> USE DEF Produce
<1>1. CASE link["source"] = "open"
  <2>1. news' \in 0 .. MaxNews
    BY <1>1, DuplexAssumption DEF DuplexIInv, DuplexTypeOK
  <2>2. DuplexTypeOK' /\ \A s \in Sides : Channel(s)' /\ LastWord(s)'
    BY <1>1, <2>1, DuplexQuietKeeps DEF DuplexIInv, DuplexTypeOK, Control, States
  <2>3. Course'
    BY <1>1 DEF DuplexIInv, Course, Links, Phases, Blame, Causes, GoodCause,
                EndedOfItself, VerdictHasCause
  <2> QED BY <2>2, <2>3 DEF DuplexIInv
<1>2. CASE link["source"] # "open"
  <2>1. /\ "producer" \in Tasks /\ "source" \in Sides /\ "producer" \notin Sides
        /\ Sides \subseteq Tasks /\ link["source"] \notin {"none", "open"}
    BY <1>2 DEF DuplexIInv, Course, Links, Tasks, Sides
  <2>2. PICK e \in States : e = Gone("source", "gone")
    BY <2>1, GoneFits
  <2>3. /\ e \in {"gone", "failed"}
        /\ e = "gone" => GoodCause
        /\ e = "failed" => \E r \in Sides : link[r] = "broken"
    BY <2>1, <2>2, GoneFits
  <2>4. /\ Control' /\ \A u \in Tasks \ {"producer"} : task'[u] = task[u]
        /\ Course'
    BY <1>2, <2>1, <2>2, <2>3, TaskSteps
  <2>5. \A s \in Sides : task'[s] = task[s]
    BY <2>1, <2>4
  <2>6. DuplexTypeOK' /\ \A s \in Sides : Channel(s)' /\ LastWord(s)'
    BY <1>2, <2>4, <2>5, DuplexQuietKeeps DEF DuplexIInv, DuplexTypeOK
  <2> QED BY <2>4, <2>6 DEF DuplexIInv
<1> QED BY <1>1, <1>2

\* A listener reads the next of what its side said.
LEMMA Reading ==
    ASSUME DuplexIInv, NEW s \in Sides, inbox[s] # <<>>,
           task[s] \notin {"asked", "gone", "failed", "error"},
           inbox' = [inbox EXCEPT ![s] = Tail(@)], UNCHANGED said
    PROVE  /\ inbox' \in [Sides -> Seq(Messages)]
           /\ inbox'[s] = Tail(inbox[s]) /\ inbox'[Other(s)] = inbox[Other(s)]
           /\ \A r \in Sides : IsSuffix(inbox'[r], said'[r])
           /\ Len(inbox'[s]) = Len(inbox[s]) - 1 /\ Len(inbox[s]) > 0
           /\ Head(inbox[s]) \in Messages
           /\ Head(inbox[s]) = said[s][Len(got[Other(s)]) + 1]
           /\ Len(got[Other(s)]) + Len(inbox[s]) = Len(said[s])
           /\ Head(inbox[s]) = End => /\ Contains(said[s], End)
                                      /\ Len(got[Other(s)]) + 1 = Len(said[s])
<1> DEFINE I == Tail(inbox[s])
           m == Head(inbox[s])
           g == Len(got[Other(s)])
           i == Len(inbox[s])
           l == Len(said[s])
<1>1. /\ Other(s) \in Sides /\ Other(s) # s /\ \A r \in Sides : r = s \/ r = Other(s)
  BY Across
<1>2. /\ said[s] \in Seq(Messages) /\ inbox[s] \in Seq(Messages)
      /\ IsSuffix(inbox[s], said[s])
      /\ g \in Nat /\ i \in Nat /\ l \in Nat /\ i # 0
  BY Streams, EmptySeq DEF DuplexIInv
<1>3. /\ I \in Seq(Messages) /\ Len(I) = i - 1 /\ m \in Messages
      /\ IsSuffix(I, said[s]) /\ m = said[s][l - i + 1]
      /\ Contains(said[s], m)
  BY <1>2, HeadTailProperties, TailOfSuffix, ContainedWhenSuffixHolds
<1>4. inbox' \in [Sides -> Seq(Messages)] /\ inbox'[s] = I
      /\ inbox'[Other(s)] = inbox[Other(s)]
  BY <1>1, <1>3 DEF DuplexIInv, DuplexTypeOK, Messages
<1>5. \A r \in Sides : IsSuffix(inbox'[r], said'[r])
  BY <1>1, <1>3, <1>4 DEF DuplexIInv, DuplexTypeOK
<1>6. g + i = l /\ \A j \in 1 .. l - 1 : said[s][j] # End
  BY DEF DuplexIInv, Channel, LastWord
<1> HIDE DEF I, m, g, i, l
<1>7. m = said[s][g + 1]
  <2>1. l - i + 1 = g + 1
    BY <1>2, <1>6
  <2> QED BY <1>3, <2>1
<1>8. m = End => g + 1 = l
  <2>1. g + 1 <= l
    BY <1>2, <1>6
  <2>2. g + 1 < l => g + 1 \in 1 .. l - 1
    BY <1>2
  <2>3. g + 1 = l \/ g + 1 < l
    BY <1>2, <2>1
  <2> QED BY <1>6, <1>7, <2>2, <2>3
<1>9. i > 0
  BY <1>2
<1> QED BY <1>3, <1>4, <1>5, <1>6, <1>7, <1>8, <1>9 DEF I, m, g, i, l

LEMMA RelayKeeps ==
    ASSUME DuplexIInv, NEW s \in Sides, Relay(s)
    PROVE  DuplexIInv'
<1> DEFINE o == Other(s)
           m == Head(inbox[s])
           G == Append(got[o], m)
<1>1. /\ o \in Sides /\ o # s /\ Other(o) = s /\ s \in Tasks
      /\ Sides \subseteq Tasks /\ \A r \in Sides : r = s \/ r = o
  BY Across DEF Tasks
<1>2. /\ task[s] \in Going /\ inbox[s] # <<>>
      /\ inbox' = [inbox EXCEPT ![s] = Tail(@)]
      /\ task[s] \notin {"asked", "gone", "failed", "error", "drained"}
      /\ UNCHANGED <<link, said, news, stage, response, faults>>
      /\ link[o] # "none"
  BY <1>1, GoingOn DEF Relay, Going, Sides
<1>3. /\ inbox' \in [Sides -> Seq(Messages)]
      /\ inbox'[s] = Tail(inbox[s]) /\ inbox'[o] = inbox[o]
      /\ \A r \in Sides : IsSuffix(inbox'[r], said'[r])
      /\ Len(inbox'[s]) = Len(inbox[s]) - 1 /\ Len(inbox[s]) > 0
      /\ m \in Messages /\ m = said[s][Len(got[o]) + 1]
      /\ Len(got[o]) + Len(inbox[s]) = Len(said[s])
      /\ m = End => /\ Contains(said[s], End)
                    /\ Len(got[o]) + 1 = Len(said[s])
  BY <1>2, Reading
<1>4. /\ said[s] \in Seq(Messages) /\ Len(said[s]) \in Nat /\ Len(inbox[s]) \in Nat
      /\ got[o] \in Seq(1 .. MaxMessages)
      /\ got[o] \in Seq(Messages) /\ Len(got[o]) \in Nat /\ IsPrefix(got[o], said[s])
  BY Streams DEF DuplexIInv
<1> HIDE DEF m, o, G
<1>5. ASSUME NEW e \in States, task' = [task EXCEPT ![s] = e],
             e \in {task[s], "asked", "gone", "failed", "error"},
             e \in {"asked", "gone"} => GoodCause, e = "asked" => m = End,
             e = "failed" => \E r \in Sides : link[r] = "broken",
             \/ UNCHANGED got /\ e # task[s]
             \/ /\ e \in {task[s], "error"} /\ m # End
                /\ got' = [got EXCEPT ![o] = G]
      PROVE  DuplexIInv'
  <2>1. /\ Control' /\ task'[s] = e /\ \A u \in Tasks \ {s} : task'[u] = task[u]
        /\ Course'
    BY <1>1, <1>2, <1>5, TaskSteps
  <2>2. /\ got' \in [Sides -> Seq(1 .. MaxMessages)]
        /\ \A r \in Sides : IsPrefix(got'[r], said'[Other(r)])
        /\ got'[s] = got[s]
        /\ (UNCHANGED got /\ e # task[s]) \/ Len(got'[o]) = Len(got[o]) + 1
    <3>1. CASE UNCHANGED got /\ e # task[s]
      BY <1>2, <3>1 DEF DuplexIInv, DuplexTypeOK
    <3>2. CASE m # End /\ got' = [got EXCEPT ![o] = G]
      <4>1. m \in 1 .. MaxMessages
        BY <1>3, <3>2 DEF Messages
      <4>2. G \in Seq(1 .. MaxMessages) /\ Len(G) = Len(got[o]) + 1
        BY <1>4, <4>1, AppendProperties DEF G
      <4>3. IsPrefix(G, said[s])
        <5>1. Len(got[o]) < Len(said[s])
          <6> DEFINE g == Len(got[o])
                     i == Len(inbox[s])
                     l == Len(said[s])
          <6>1. g \in Nat /\ i \in Nat /\ l \in Nat /\ i > 0 /\ g + i = l
            BY <1>3, <1>4
          <6> HIDE DEF g, i, l
          <6>2. g < l
            BY <6>1
          <6> QED BY <6>2 DEF g, l
        <5> QED BY <1>3, <1>4, <5>1, PrefixGrows DEF G
      <4>4. /\ got' \in [Sides -> Seq(1 .. MaxMessages)]
            /\ got'[o] = G /\ got'[s] = got[s]
        BY <1>1, <3>2, <4>2 DEF DuplexIInv, DuplexTypeOK
      <4>5. ASSUME NEW r \in Sides PROVE IsPrefix(got'[r], said'[Other(r)])
        <5>1. CASE r = s
          BY <1>2, <4>4, <5>1 DEF DuplexIInv, DuplexTypeOK
        <5>2. CASE r = o
          BY <1>1, <1>2, <4>3, <4>4, <5>2
        <5> QED BY <1>1, <5>1, <5>2
      <4> QED BY <4>2, <4>4, <4>5
    <3> QED BY <1>5, <3>1, <3>2
  <2>3. DuplexTypeOK'
    BY <1>2, <1>3, <2>1, <2>2 DEF DuplexIInv, DuplexTypeOK, Control, States, Messages
  <2>4. Channel(s)'
    <3>1. CASE e = task[s]
      <4> DEFINE g == Len(got[o])
                 i == Len(inbox[s])
                 l == Len(said[s])
      <4>1. /\ g \in Nat /\ i \in Nat /\ l \in Nat /\ g + i = l
            /\ g' = g + 1 /\ i' = i - 1
        <5>1. Len(got'[o]) = Len(got[o]) + 1
          BY <1>1, <1>4, <1>5, <2>2, <3>1
        <5> QED BY <1>3, <1>4, <5>1
      <4> HIDE DEF g, i, l
      <4>2. g' + i' = l
        BY <4>1
      <4> QED BY <1>2, <2>1, <3>1, <4>2 DEF Channel, o, g, i, l
    <3>2. CASE e = "asked"
      <4>1. UNCHANGED got
        BY <1>2, <1>5, <3>2
      <4> QED BY <1>2, <1>3, <1>5, <2>1, <3>2, <4>1 DEF Channel, o
    <3>3. CASE e \in {"gone", "failed", "error"}
      BY <2>1, <3>3 DEF Channel
    <3> QED BY <1>5, <3>1, <3>2, <3>3
  <2>5. Channel(o)'
    <3>1. /\ inbox'[o] = inbox[o] /\ task'[o] = task[o]
          /\ got'[Other(o)] = got[Other(o)]
      BY <1>1, <1>3, <2>1, <2>2
    <3> QED BY <1>1, <1>2, <3>1 DEF DuplexIInv, Channel
  <2>6. \A r \in Sides : LastWord(r)'
    BY <1>2 DEF DuplexIInv, LastWord
  <2> QED BY <1>1, <2>1, <2>3, <2>4, <2>5, <2>6 DEF DuplexIInv
<1>6. task[s] \in States /\ {"asked", "error"} \subseteq States
  BY <1>2 DEF States, Ends, OwnEnds
<1>7. CASE m = End /\ task' = [task EXCEPT ![s] = "asked"] /\ UNCHANGED got
  <2>1. GoodCause
    BY <1>3, <1>7 DEF GoodCause
  <2> QED BY <1>2, <1>5, <1>6, <1>7, <2>1
<1>8. ASSUME m # End, got' = [got EXCEPT ![o] = G],
             NEW then \in {task[s], "error"}, task' = [task EXCEPT ![s] = then]
      PROVE  DuplexIInv'
  <2>1. then \in States /\ then \notin {"asked", "gone", "failed"}
    BY <1>2, <1>6
  <2> QED BY <1>5, <1>8, <2>1
<1>9. CASE /\ link[o] # "open" /\ UNCHANGED got
           /\ task' = [task EXCEPT ![s] = Gone(o, "gone")]
  <2>1. PICK e \in States : e = Gone(o, "gone")
    BY <1>1, <1>2, <1>9, GoneFits
  <2>2. /\ e \in {"gone", "failed"}
        /\ e = "gone" => GoodCause
        /\ e = "failed" => \E r \in Sides : link[r] = "broken"
    BY <1>1, <1>2, <1>9, <2>1, GoneFits
  <2>3. e # task[s] /\ e # "asked"
    BY <1>2, <2>2
  <2> QED BY <1>5, <1>9, <2>1, <2>2, <2>3
<1>10. CASE task' = [task EXCEPT ![s] = "error"] /\ UNCHANGED got
  BY <1>2, <1>5, <1>6, <1>10
<1> QED BY <1>7, <1>8, <1>9, <1>10 DEF Relay, m, o, G

LEMMA DuplexStutterKeeps ==
    ASSUME DuplexIInv, UNCHANGED duplexVars
    PROVE  DuplexIInv'
<1> USE DEF duplexVars, network
<1>1. DuplexTypeOK' /\ \A s \in Sides : Channel(s)' /\ LastWord(s)'
  BY DuplexQuietKeeps DEF DuplexIInv, DuplexTypeOK, Control, States
<1>2. Course'
  BY DEF DuplexIInv, Course, Links, Phases, Blame, Causes, GoodCause, EndedOfItself,
         VerdictHasCause
<1> QED BY <1>1, <1>2 DEF DuplexIInv

LEMMA DuplexStepKeeps == DuplexIInv /\ [DuplexNext]_duplexVars => DuplexIInv'
<1> SUFFICES ASSUME DuplexIInv, [DuplexNext]_duplexVars PROVE DuplexIInv'
  OBVIOUS
<1>1. CASE Request
  BY <1>1, RequestKeeps
<1>2. CASE Session
  BY <1>2, ConnectKeeps, GreetKeeps, StartKeeps, FirstCompletedKeeps, CancelKeeps,
     RespondKeeps, CloseKeeps DEF Session
<1>3. CASE Interrupt
  BY <1>3, InterruptKeeps
<1>4. CASE \E s \in Sides : Say(s) \/ Leave(s)
  BY <1>4, SayKeeps, LeaveKeeps
<1>5. CASE \E t \in Tasks : Work(t)
  BY <1>5, BeginKeeps, NoticeKeeps, RelayKeeps, HearEndKeeps, ProduceKeeps DEF Work
<1>6. CASE UNCHANGED duplexVars
  BY <1>6, DuplexStutterKeeps
<1> QED BY <1>1, <1>2, <1>3, <1>4, <1>5, <1>6 DEF DuplexNext

LEMMA DuplexInvariant == DuplexSpec => []DuplexIInv
BY DuplexInitHolds, DuplexStepKeeps, PTL DEF DuplexSpec

-----------------------------------------------------------------------------
(* The theorems *)

\* However many messages are exchanged and however the session ends: once
\* handle_request has answered, the connection it opened to the service behind is
\* gone, and its tasks have ended but for those that were told to end, went on and
\* outlasted the polling, for which it does not answer that all is well; what a
\* side was sent is at all times the beginning of what the other one said.
THEOREM SessionsEndCleanly == DuplexSpec => []CleanEnd
<1>1. DuplexIInv => CleanEnd
  BY DEF DuplexIInv, Course, CleanEnd, Phases, Links
<1> QED BY <1>1, DuplexInvariant, PTL

\* A listener that read its side's connection to the end, or was asked to
\* disconnect, has repeated all the side said; and the handler cuts a listener
\* short only if it was interrupted itself, or some task ended of itself
\* (listen_to_messages, handle_request).
THEOREM LossesHaveACause == DuplexSpec => []LossHasCause
<1>1. ASSUME DuplexIInv, NEW s \in Sides, task[s] \in {"drained", "asked"}
      PROVE  got[Other(s)] = Sayings(s)
  <2> DEFINE G == got[Other(s)]
             S == said[s]
  <2>1. /\ S \in Seq(Messages) /\ Len(S) \in Nat /\ G \in Seq(1 .. MaxMessages)
        /\ G \in Seq(Messages) /\ Len(G) \in Nat /\ IsPrefix(G, S)
        /\ Channel(s)
    BY <1>1, Streams DEF DuplexIInv
  <2>2. Len(G) <= Len(S) /\ \A i \in 1 .. Len(G) : G[i] = S[i]
    BY <2>1, PrefixPointwise
  <2>3. CASE task[s] = "drained"
    <3>1. Len(G) + Len(inbox[s]) = Len(S) /\ inbox[s] = <<>>
      BY <2>1, <2>3 DEF Channel
    <3> HIDE DEF G, S
    <3>2. Len(G) = Len(S)
      BY <2>1, <3>1, EmptySeq
    <3>3. G = S
      BY <2>1, <3>2, WholePrefix
    <3>4. ~Contains(S, End)
      <4>1. \A i \in 1 .. Len(S) : S[i] \in 1 .. MaxMessages
        BY <2>1, <3>3, ElementOfSeq
      <4>2. End \notin 1 .. MaxMessages
        BY EndAssumption, DuplexAssumption
      <4> QED BY <4>1, <4>2 DEF Contains
    <3> QED BY <3>3, <3>4 DEF Sayings, G, S
  <2>4. CASE task[s] = "asked"
    <3>1. Contains(S, End) /\ Len(G) + 1 = Len(S)
      BY <2>1, <2>4 DEF Channel
    <3> DEFINE F == SubSeq(S, 1, Len(S) - 1)
    <3>2. F = Front(S)
      BY DEF Front
    <3> HIDE DEF G, S
    <3>3. Len(S) - 1 = Len(G) /\ Len(G) <= Len(S)
      BY <2>1, <3>1
    <3>4. /\ F \in Seq(Messages) /\ Len(F) = Len(G)
          /\ \A i \in 1 .. Len(G) : F[i] = S[i]
      BY <2>1, <3>3, SubSeqProperties, ElementOfSeq
    <3> HIDE DEF F
    <3>5. F = G
      BY <2>1, <2>2, <3>4, SeqEqual
    <3> QED BY <3>1, <3>2, <3>5 DEF Sayings, G, S
  <2> QED BY <1>1, <2>3, <2>4
<1>2. DuplexIInv => LossHasCause
  <2> SUFFICES ASSUME DuplexIInv, stage = "done", NEW s \in Sides,
                      got[Other(s)] # Sayings(s)
               PROVE  \/ task[s] \in {"none", "gone", "failed", "error", "raised"}
                      \/ /\ task[s] \in {"stopped", "unbegun", "ignoring"}
                         /\ \/ response = "interrupted"
                            \/ \E t \in Tasks \ {s} : task[t] \in OwnEnds
    BY DEF LossHasCause
  <2>1. task[s] \notin {"drained", "asked"}
    BY <1>1
  <2>2. task[s] \in Ends \union {"none", "ignoring"} /\ Causes
    BY DEF DuplexIInv, Course, Phases, Tasks
  <2>3. CASE task[s] \in {"stopped", "unbegun", "ignoring"}
    BY <2>2, <2>3 DEF Causes, EndedOfItself, OwnEnds
  <2> QED BY <2>1, <2>2, <2>3 DEF Ends, OwnEnds
<1> QED BY <1>2, DuplexInvariant, PTL

\* The answer has a cause: that the handler cancels its own tasks when the first
\* one ends neither makes a session fail nor makes it succeed.
THEOREM AnswersHaveACause == DuplexSpec => []VerdictHasCause
<1>1. DuplexIInv => VerdictHasCause
  BY DEF DuplexIInv, Course
<1> QED BY <1>1, DuplexInvariant, PTL

-----------------------------------------------------------------------------
(* Authentication sessions: the inductive invariant *)

Writing == {"secret", "user", "secrets", "users"}

\* Every request is handled by one process at most.
Requesters ==
    /\ \A p \in Processes :
          /\ at[p] = "idle" => req[p] = 0
          /\ at[p] # "idle" => req[p] \in Requests /\ asked[req[p]] \in Users
          /\ at[p] = "known" => users[asked[req[p]]] # 0
          /\ at[p] \in Writing \union {"check"} => id[p] # 0
    /\ \A p, q \in Processes : p # q /\ at[p] # "idle" => req[p] # req[q]

\* What is in a record was written for a request that got that far.
Written ==
    \A i \in Ids, f \in Fields : record[i][f] # 0 =>
       /\ asked[record[i][f]] # None
       /\ \A p \in Processes : req[p] = record[i][f] => at[p] \in Writing

\* How far the writes of a session are.
Progress == \A p \in Processes :
    /\ at[p] \in {"user", "secrets", "users"} => record[id[p]]["secret"] # 0
    /\ at[p] \in {"secrets", "users"} => record[id[p]]["user"] # 0
    /\ at[p] = "users" => secrets[req[p]] = id[p]

Findable == \A i \in Ids :
    (\E r \in Requests : secrets[r] = i) \/ (\E u \in Users : users[u] = i)
        => \A f \in Fields : record[i][f] # 0

\* Sessions that are created now are created beside each other.
Overlaps == \A p, q \in Processes :
    p # q /\ at[p] \in Creating /\ at[q] \in Creating
        => <<req[p], req[q]>> \in beside

\* Who writes under an id that others have used was created beside them.
Contended == \A p \in Processes : at[p] \in Writing =>
    /\ \A r \in Requests : r # req[p] /\ secrets[r] = id[p]
          => <<r, req[p]>> \in beside
    /\ \A f \in Fields : record[id[p]][f] \notin {0, req[p]}
          => <<req[p], record[id[p]][f]>> \in beside

\* What a secret finds was written for its request, or for one beside it.
Owned == \A r \in Requests : secrets[r] # 0 => \A f \in Fields :
    record[secrets[r]][f] = r \/ <<r, record[secrets[r]][f]>> \in beside

\* A session that was created alone is its user's for good: whoever creates
\* another for the user does so beside it.
Kept(r) ==
    /\ secrets[r] # 0 /\ asked[r] \in Users /\ users[asked[r]] # 0
    /\ \A p \in Processes :
          /\ req[p] # r
          /\ at[p] \in Creating /\ asked[req[p]] = asked[r]
                => <<r, req[p]>> \in beside
    /\ Alone(r) => users[asked[r]] = secrets[r]

IInv == /\ TypeOK /\ Requesters /\ Written /\ Progress /\ Findable
        /\ Overlaps /\ Contended /\ Owned
        /\ \A r \in Created : Kept(r)

-----------------------------------------------------------------------------
(* Places and writes *)

LEMMA PlacesAre ==
    /\ Places = {"idle", "needs", "known", "get", "bump", "check"} \union Writing
    /\ Creating = {"get", "bump", "check"} \union Writing
    /\ Writing \subseteq Creating
<1>1. DOMAIN Commands = 1 .. 4 /\ Len(Commands) = 4
  BY DEF Commands
<1>2. {Commands[n] : n \in DOMAIN Commands} = Writing
  <2>1. 1 .. 4 = {1, 2, 3, 4}
    OBVIOUS
  <2> QED BY <1>1, <2>1 DEF Commands, Writing
<1>3. Places = {"idle", "needs", "known", "get", "bump", "check"} \union Writing
  BY <1>2 DEF Places
<1> QED BY <1>3 DEF Creating, Writing

\* The four writes, one by one.
LEMMA WriteCases ==
    ASSUME NEW p, Write(p)
    PROVE  /\ UNCHANGED <<next, asked, beside, crashes>>
           /\ \/ /\ at[p] = "secret" /\ Go(p, "user")
                 /\ record' = [record EXCEPT ![id[p]]["secret"] = req[p]]
                 /\ UNCHANGED <<secrets, users, req, id, answer>>
              \/ /\ at[p] = "user" /\ Go(p, "secrets")
                 /\ record' = [record EXCEPT ![id[p]]["user"] = req[p]]
                 /\ UNCHANGED <<secrets, users, req, id, answer>>
              \/ /\ at[p] = "secrets" /\ Go(p, "users")
                 /\ secrets' = [secrets EXCEPT ![req[p]] = id[p]]
                 /\ UNCHANGED <<record, users, req, id, answer>>
              \/ /\ at[p] = "users" /\ Done(p, [f \in Fields |-> req[p]])
                 /\ users' = [users EXCEPT ![User(p)] = id[p]]
                 /\ UNCHANGED <<record, secrets>>
<1>1. PICK n \in DOMAIN Commands :
        /\ at[p] = Commands[n]
        /\ record' = IF Commands[n] \in Fields
                     THEN [record EXCEPT ![id[p]][Commands[n]] = req[p]] ELSE record
        /\ secrets' = IF Commands[n] = "secrets"
                      THEN [secrets EXCEPT ![req[p]] = id[p]] ELSE secrets
        /\ users' = IF Commands[n] = "users"
                    THEN [users EXCEPT ![User(p)] = id[p]] ELSE users
        /\ IF n < Len(Commands) THEN Go(p, Commands[n + 1]) /\ UNCHANGED <<req, id, answer>>
                                ELSE Done(p, [f \in Fields |-> req[p]])
        /\ UNCHANGED <<next, asked, beside, crashes>>
  BY DEF Write, WriteIn
<1>2. /\ Len(Commands) = 4 /\ n \in {1, 2, 3, 4}
      /\ Commands[1] = "secret" /\ Commands[2] = "user"
      /\ Commands[3] = "secrets" /\ Commands[4] = "users"
  BY DEF Commands
<1>3. CASE n = 1
  <2>1. Commands[n] = "secret" /\ Commands[n + 1] = "user" /\ n < Len(Commands)
    BY <1>2, <1>3
  <2>2. record' = [record EXCEPT ![id[p]][Commands[n]] = req[p]]
    BY <1>1, <2>1 DEF Fields
  <2>3. record' = [record EXCEPT ![id[p]]["secret"] = req[p]]
    BY <2>1, <2>2
  <2> QED BY <1>1, <2>1, <2>3
<1>4. CASE n = 2
  <2>1. Commands[n] = "user" /\ Commands[n + 1] = "secrets" /\ n < Len(Commands)
    BY <1>2, <1>4
  <2>2. record' = [record EXCEPT ![id[p]][Commands[n]] = req[p]]
    BY <1>1, <2>1 DEF Fields
  <2>3. record' = [record EXCEPT ![id[p]]["user"] = req[p]]
    BY <2>1, <2>2
  <2> QED BY <1>1, <2>1, <2>3
<1>5. CASE n = 3
  BY <1>1, <1>2, <1>5 DEF Fields
<1>6. CASE n = 4
  BY <1>1, <1>2, <1>6 DEF Fields
<1> QED BY <1>2, <1>3, <1>4, <1>5, <1>6

-----------------------------------------------------------------------------
(* The steps *)

LEMMA InitHolds == Init => IInv
<1> SUFFICES ASSUME Init PROVE IInv
  OBVIOUS
<1> USE DEF Init
<1>1. TypeOK
  <2>1. 0 \in 0 .. MaxRequests /\ 0 \in 0 .. MaxId /\ 0 \in 0 .. MaxCrashes
    BY BoundsAssumption
  <2> QED BY <2>1, PlacesAre DEF TypeOK, NoFields
<1>2. Requesters /\ Progress /\ Overlaps /\ Contended
  BY PlacesAre DEF Requesters, Progress, Overlaps, Contended, Writing
<1>3. Written /\ Findable /\ Owned
  BY DEF Written, Findable, Owned, NoFields, Ids
<1>4. Created = {}
  BY DEF Created, NoFields, Fields, Requests
<1> QED BY <1>1, <1>2, <1>3, <1>4 DEF IInv

\* Nothing is written and nothing is forgotten of what was beside what.
LEMMA QuietKeeps ==
    ASSUME IInv, UNCHANGED <<record, secrets, users>>, beside \subseteq beside'
    PROVE  Findable' /\ Owned'
BY DEF IInv, Findable, Owned

LEMMA AskKeeps ==
    ASSUME IInv, NEW p \in Processes, NEW u \in Users, Ask(p, u)
    PROVE  IInv'
<1>1. PICK r \in Requests : /\ asked[r] = None
                            /\ asked' = [asked EXCEPT ![r] = u]
                            /\ req' = [req EXCEPT ![p] = r]
  BY DEF Ask
<1>2. /\ at[p] = "idle" /\ at' = [at EXCEPT ![p] = "needs"]
      /\ UNCHANGED <<shared, id, answer, beside, crashes>>
  BY DEF Ask, Go
<1>3. /\ at'[p] = "needs" /\ req'[p] = r
      /\ \A q \in Processes \ {p} : at'[q] = at[q] /\ req'[q] = req[q]
      /\ asked'[r] = u /\ \A s \in Requests \ {r} : asked'[s] = asked[s]
  BY <1>1, <1>2 DEF IInv, TypeOK
<1>4. TypeOK'
  <2>1. at' \in [Processes -> Places]
    BY <1>2, PlacesAre DEF IInv, TypeOK
  <2>2. req' \in [Processes -> 0 .. MaxRequests]
    BY <1>1 DEF IInv, TypeOK, Requests
  <2>3. asked' \in [Requests -> Users \union {None}]
    BY <1>1 DEF IInv, TypeOK
  <2> QED BY <1>2, <2>1, <2>2, <2>3 DEF IInv, TypeOK, shared
<1>5. \A q \in Processes : req[q] # r
  BY <1>1, NoneAssumption DEF IInv, Requesters, Requests
<1>6. Requesters'
  <2>1. ASSUME NEW q \in Processes
        PROVE  /\ at'[q] = "idle" => req'[q] = 0
               /\ at'[q] # "idle" => req'[q] \in Requests /\ asked'[req'[q]] \in Users
               /\ at'[q] = "known" => users'[asked'[req'[q]]] # 0
               /\ at'[q] \in Writing \union {"check"} => id'[q] # 0
    <3>1. CASE q = p
      BY <1>3, <3>1 DEF Writing
    <3>2. CASE q # p
      BY <1>2, <1>3, <1>5, <3>2 DEF IInv, Requesters, shared, Writing
    <3> QED BY <3>1, <3>2
  <2>2. \A q, s \in Processes : q # s /\ at'[q] # "idle" => req'[q] # req'[s]
    BY <1>3, <1>5 DEF IInv, Requesters
  <2> QED BY <2>1, <2>2 DEF Requesters
<1>7. Written'
  <2> SUFFICES ASSUME NEW i \in Ids, NEW f \in Fields, record[i][f] # 0
               PROVE  /\ asked'[record[i][f]] # None
                      /\ \A q \in Processes : req'[q] = record[i][f] => at'[q] \in Writing
    BY <1>2 DEF Written, shared
  <2>1. /\ asked[record[i][f]] # None
        /\ \A q \in Processes : req[q] = record[i][f] => at[q] \in Writing
    BY DEF IInv, Written
  <2>2. record[i][f] \in Requests
    BY DEF IInv, TypeOK, Requests
  <2> QED BY <1>1, <1>3, <2>1, <2>2, NoneAssumption
<1>8. Progress' /\ Contended'
  BY <1>2, <1>3 DEF IInv, Progress, Contended, shared, Writing
<1>9. Overlaps'
  BY <1>2, <1>3, PlacesAre DEF IInv, Overlaps, Writing
<1>10. \A s \in Created' : Kept(s)'
  <2> SUFFICES ASSUME NEW s \in Created
               PROVE  Kept(s)'
    BY <1>2 DEF Created
  <2>1. Kept(s) /\ s \in Requests
    BY DEF IInv, Created
  <2>2. s # r /\ asked'[s] = asked[s]
    BY <1>1, <1>3, <2>1, NoneAssumption DEF Kept
  <2>3. ASSUME NEW q \in Processes
        PROVE  /\ req'[q] # s
               /\ at'[q] \in Creating /\ asked'[req'[q]] = asked'[s]
                     => <<s, req'[q]>> \in beside'
    <3>1. CASE q = p
      BY <1>3, <2>2, <3>1, PlacesAre DEF Writing
    <3>2. CASE q # p
      <4>1. at[q] \in Creating => req[q] \in Requests
        BY PlacesAre DEF IInv, Requesters, Writing
      <4> QED BY <1>2, <1>3, <1>5, <2>1, <2>2, <3>2, <4>1 DEF Kept
    <3> QED BY <3>1, <3>2
  <2>4. Alone(s)' => Alone(s)
    BY <1>2 DEF Alone
  <2> QED BY <1>2, <2>1, <2>2, <2>3, <2>4 DEF Kept, shared
<1>11. Findable' /\ Owned'
  BY <1>2, QuietKeeps DEF shared
<1> QED BY <1>4, <1>6, <1>7, <1>8, <1>9, <1>10, <1>11 DEF IInv

\* A process goes on with its request and writes nothing.
LEMMA MoveKeeps ==
    ASSUME IInv, NEW p \in Processes, NEW x \in Places,
           at[p] \in {"needs", "get", "bump", "check"}, x # "idle",
           at' = [at EXCEPT ![p] = x],
           UNCHANGED <<record, secrets, users, req, asked, answer, crashes>>,
           next' \in Nat, id' \in [Processes -> 0 .. MaxId],
           \A q \in Processes \ {p} : id'[q] = id[q],
           beside \subseteq beside', beside' \subseteq Requests \X Requests,
           x \in Writing \union {"check"} => id'[p] # 0,
           x = "known" => users[asked[req[p]]] # 0,
           x \in Writing => x = "secret" /\ record[id'[p]] = NoFields,
           \A q \in Processes \ {p} : x \in Creating /\ at[q] \in Creating =>
              <<req[p], req[q]>> \in beside' /\ <<req[q], req[p]>> \in beside',
           \A r \in Created : x \in Creating /\ asked[req[p]] = asked[r] =>
              <<r, req[p]>> \in beside'
    PROVE  IInv'
<1>1. at'[p] = x /\ \A q \in Processes \ {p} : at'[q] = at[q]
  BY DEF IInv, TypeOK
<1>2. TypeOK'
  BY DEF IInv, TypeOK
<1>3. Requesters'
  <2>1. ASSUME NEW q \in Processes
        PROVE  /\ at'[q] = "idle" => req'[q] = 0
               /\ at'[q] # "idle" => req'[q] \in Requests /\ asked'[req'[q]] \in Users
               /\ at'[q] = "known" => users'[asked'[req'[q]]] # 0
               /\ at'[q] \in Writing \union {"check"} => id'[q] # 0
    <3>1. CASE q = p
      BY <1>1, <3>1 DEF IInv, Requesters
    <3>2. CASE q # p
      BY <1>1, <3>2 DEF IInv, Requesters
    <3> QED BY <3>1, <3>2
  <2>2. \A q, s \in Processes : q # s /\ at'[q] # "idle" => req'[q] # req'[s]
    BY <1>1 DEF IInv, Requesters
  <2> QED BY <2>1, <2>2 DEF Requesters
<1>4. Written'
  <2> SUFFICES ASSUME NEW i \in Ids, NEW f \in Fields, record[i][f] # 0
               PROVE  /\ asked[record[i][f]] # None
                      /\ \A q \in Processes : req[q] = record[i][f] => at'[q] \in Writing
    BY DEF Written
  <2>1. /\ asked[record[i][f]] # None
        /\ \A q \in Processes : req[q] = record[i][f] => at[q] \in Writing
    BY DEF IInv, Written
  <2> QED BY <1>1, <2>1 DEF Writing
<1>5. Progress'
  <2> SUFFICES ASSUME NEW q \in Processes
               PROVE  /\ at'[q] \in {"user", "secrets", "users"}
                            => record[id'[q]]["secret"] # 0
                      /\ at'[q] \in {"secrets", "users"} => record[id'[q]]["user"] # 0
                      /\ at'[q] = "users" => secrets[req[q]] = id'[q]
    BY DEF Progress
  <2>1. CASE q = p
    BY <1>1, <2>1 DEF Writing
  <2>2. CASE q # p
    BY <1>1, <2>2 DEF IInv, Progress
  <2> QED BY <2>1, <2>2
<1>6. Overlaps'
  <2> SUFFICES ASSUME NEW q \in Processes, NEW s \in Processes, q # s,
                      at'[q] \in Creating, at'[s] \in Creating
               PROVE  <<req[q], req[s]>> \in beside'
    BY DEF Overlaps
  <2>1. CASE q = p
    <3>1. x \in Creating /\ s \in Processes \ {p} /\ at[s] \in Creating
      BY <1>1, <2>1
    <3> QED BY <2>1, <3>1
  <2>2. CASE s = p
    <3>1. x \in Creating /\ q \in Processes \ {p} /\ at[q] \in Creating
      BY <1>1, <2>2
    <3> QED BY <2>2, <3>1
  <2>3. CASE q # p /\ s # p
    BY <1>1, <2>3 DEF IInv, Overlaps
  <2> QED BY <2>1, <2>2, <2>3
<1>7. Contended'
  <2> SUFFICES ASSUME NEW q \in Processes, at'[q] \in Writing
               PROVE  /\ \A r \in Requests : r # req[q] /\ secrets[r] = id'[q]
                            => <<r, req[q]>> \in beside'
                      /\ \A f \in Fields : record[id'[q]][f] \notin {0, req[q]}
                            => <<req[q], record[id'[q]][f]>> \in beside'
    BY DEF Contended
  <2>1. CASE q = p
    <3>1. record[id'[q]] = NoFields /\ id'[q] \in Ids
      BY <1>1, <2>1 DEF Ids
    <3>2. \A f \in Fields : record[id'[q]][f] = 0
      BY <3>1 DEF NoFields
    <3>3. \A r \in Requests : secrets[r] # id'[q]
      BY <3>1, <3>2 DEF IInv, Findable, Fields
    <3> QED BY <3>2, <3>3
  <2>2. CASE q # p
    BY <1>1, <2>2 DEF IInv, Contended
  <2> QED BY <2>1, <2>2
<1>8. \A r \in Created' : Kept(r)'
  <2> SUFFICES ASSUME NEW r \in Created PROVE Kept(r)'
    BY DEF Created
  <2>1. Kept(r)
    BY DEF IInv
  <2>2. Alone(r)' => Alone(r)
    BY DEF Alone
  <2>3. ASSUME NEW q \in Processes, at'[q] \in Creating, asked[req[q]] = asked[r]
        PROVE  <<r, req[q]>> \in beside'
    BY <1>1, <2>1, <2>3 DEF Kept
  <2> QED BY <2>1, <2>2, <2>3 DEF Kept
<1>9. Findable' /\ Owned'
  BY QuietKeeps
<1> QED BY <1>2, <1>3, <1>4, <1>5, <1>6, <1>7, <1>8, <1>9 DEF IInv

LEMMA NeedsKeeps ==
    ASSUME IInv, NEW p \in Processes, Needs(p)
    PROVE  IInv'
<1>1. /\ at[p] = "needs" /\ req[p] \in Requests /\ asked[req[p]] \in Users
      /\ UNCHANGED <<shared, req, id, asked, answer, crashes>>
  BY DEF IInv, Requesters, Needs
<1>2. CASE users[asked[req[p]]] = 0
  <2> DEFINE new == UNION {{<<req[p], req[q]>>, <<req[q], req[p]>>} :
                             q \in {q \in Processes : q # p /\ at[q] \in Creating}}
  <2>1. at' = [at EXCEPT ![p] = "get"] /\ beside' = beside \union new
    BY <1>2 DEF Needs, Go, User
  <2>2. new \subseteq Requests \X Requests
    <3>1. \A q \in Processes : at[q] \in Creating => req[q] \in Requests
      BY PlacesAre DEF IInv, Requesters, Writing
    <3> QED BY <1>1, <3>1
  <2>3. \A q \in Processes \ {p} : at[q] \in Creating =>
           <<req[p], req[q]>> \in new /\ <<req[q], req[p]>> \in new
    OBVIOUS
  <2> HIDE DEF new
  <2>4. \A r \in Created : asked[req[p]] # asked[r]
    BY <1>2 DEF IInv, Kept
  <2>5. "get" \in Places /\ "get" \notin Writing \union {"check", "known", "idle"}
    BY PlacesAre DEF Writing
  <2> QED BY <1>1, <2>1, <2>2, <2>3, <2>4, <2>5, MoveKeeps DEF IInv, TypeOK, shared
<1>3. CASE users[asked[req[p]]] # 0
  <2>1. at' = [at EXCEPT ![p] = "known"] /\ UNCHANGED beside
    BY <1>3 DEF Needs, Go, User
  <2>2. "known" \in Places /\ "known" \notin Creating /\ "known" \notin Writing
    BY PlacesAre DEF Writing
  <2> QED BY <1>1, <1>3, <2>1, <2>2, MoveKeeps DEF IInv, TypeOK, shared
<1> QED BY <1>2, <1>3

\* Who creates a session already is beside whatever it has to be beside.
LEMMA CreatingIsBeside ==
    ASSUME IInv, NEW p \in Processes, at[p] \in Creating
    PROVE  /\ \A q \in Processes \ {p} : at[q] \in Creating =>
                <<req[p], req[q]>> \in beside /\ <<req[q], req[p]>> \in beside
           /\ \A r \in Created : asked[req[p]] = asked[r] => <<r, req[p]>> \in beside
BY DEF IInv, Overlaps, Kept

LEMMA GetKeeps ==
    ASSUME IInv, NEW p \in Processes, Get(p)
    PROVE  IInv'
<1>1. /\ at[p] = "get" /\ next \in 0 .. MaxId
      /\ id' = [id EXCEPT ![p] = next] /\ at' = [at EXCEPT ![p] = "bump"]
      /\ UNCHANGED <<shared, req, asked, answer, beside, crashes>>
  BY BoundsAssumption DEF IInv, TypeOK, Get, Go
<1>2. /\ at[p] \in Creating /\ "bump" \in Places /\ "bump" \in Creating
      /\ "bump" \notin Writing \union {"check", "known", "idle"}
  BY <1>1, PlacesAre DEF Writing
<1>3. id' \in [Processes -> 0 .. MaxId] /\ \A q \in Processes \ {p} : id'[q] = id[q]
  BY <1>1 DEF IInv, TypeOK
<1> QED BY <1>1, <1>2, <1>3, CreatingIsBeside, MoveKeeps DEF IInv, TypeOK, shared

LEMMA BumpKeeps ==
    ASSUME IInv, NEW p \in Processes, Bump(p)
    PROVE  IInv'
<1>1. /\ at[p] = "bump" /\ at' = [at EXCEPT ![p] = "check"]
      /\ UNCHANGED <<record, secrets, users, req, asked, answer, beside, crashes>>
  BY DEF Bump, Go
<1>2. /\ at[p] \in Creating /\ "check" \in Places /\ "check" \in Creating
      /\ "check" \notin Writing \union {"known", "idle"}
  BY <1>1, PlacesAre DEF Writing
<1>3. /\ next' \in Nat /\ id' \in [Processes -> 0 .. MaxId] /\ id'[p] # 0
      /\ \A q \in Processes \ {p} : id'[q] = id[q]
  <2>1. 1 \in 0 .. MaxId
    BY BoundsAssumption
  <2>2. CASE id[p] = 0
    BY <2>1, <2>2 DEF IInv, TypeOK, Bump
  <2>3. CASE id[p] # 0
    BY <2>3 DEF IInv, TypeOK, Bump
  <2> QED BY <2>2, <2>3
<1> QED BY <1>1, <1>2, <1>3, CreatingIsBeside, MoveKeeps DEF IInv, TypeOK

LEMMA CheckKeeps ==
    ASSUME IInv, NEW p \in Processes, Check(p)
    PROVE  IInv'
<1>1. /\ at[p] = "check" /\ id[p] # 0
      /\ UNCHANGED <<shared, req, id, asked, answer, beside, crashes>>
  BY DEF IInv, Requesters, Check
<1> DEFINE x == IF record[id[p]] = NoFields THEN "secret" ELSE "get"
<1>2. at' = [at EXCEPT ![p] = x]
  <2>1. Commands[1] = "secret"
    BY DEF Commands
  <2> QED BY <2>1 DEF Check, Go
<1>3. /\ at[p] \in Creating /\ x \in Places /\ x \in Creating
      /\ x \notin {"check", "known", "idle"}
      /\ x \in Writing => x = "secret" /\ record[id[p]] = NoFields
  BY <1>1, PlacesAre DEF Writing
<1> HIDE DEF x
<1> QED BY <1>1, <1>2, <1>3, CreatingIsBeside, MoveKeeps DEF IInv, TypeOK, shared

\* A process is done with its request, or gives it up.
LEMMA LeavingKeeps ==
    ASSUME IInv, NEW p \in Processes, at[p] # "idle",
           at' = [at EXCEPT ![p] = "idle"], req' = [req EXCEPT ![p] = 0],
           id' = [id EXCEPT ![p] = 0],
           UNCHANGED <<record, secrets, asked, beside>>,
           \A u \in Users : users[u] # 0 => users'[u] # 0
    PROVE  /\ at' \in [Processes -> Places] /\ req' \in [Processes -> 0 .. MaxRequests]
           /\ id' \in [Processes -> 0 .. MaxId]
           /\ at'[p] = "idle" /\ req'[p] = 0
           /\ \A q \in Processes \ {p} :
                 at'[q] = at[q] /\ req'[q] = req[q] /\ id'[q] = id[q]
           /\ Requesters' /\ Written' /\ Progress' /\ Overlaps' /\ Contended' /\ Owned'
<1>1. /\ at'[p] = "idle" /\ req'[p] = 0
      /\ \A q \in Processes \ {p} : at'[q] = at[q] /\ req'[q] = req[q] /\ id'[q] = id[q]
  BY DEF IInv, TypeOK
<1>2. at' \in [Processes -> Places] /\ req' \in [Processes -> 0 .. MaxRequests]
        /\ id' \in [Processes -> 0 .. MaxId]
  <2>1. 0 \in 0 .. MaxRequests /\ 0 \in 0 .. MaxId
    BY BoundsAssumption
  <2> QED BY <2>1, PlacesAre DEF IInv, TypeOK
<1>3. Requesters'
  <2>1. ASSUME NEW q \in Processes
        PROVE  /\ at'[q] = "idle" => req'[q] = 0
               /\ at'[q] # "idle" => req'[q] \in Requests /\ asked'[req'[q]] \in Users
               /\ at'[q] = "known" => users'[asked'[req'[q]]] # 0
               /\ at'[q] \in Writing \union {"check"} => id'[q] # 0
    <3>1. CASE q = p
      BY <1>1, <3>1 DEF Writing
    <3>2. CASE q # p
      BY <1>1, <3>2 DEF IInv, Requesters
    <3> QED BY <3>1, <3>2
  <2>2. ASSUME NEW q \in Processes, NEW s \in Processes, q # s, at'[q] # "idle"
        PROVE  req'[q] # req'[s]
    <3>1. q # p /\ req'[q] = req[q] /\ at[q] # "idle"
      BY <1>1, <2>2
    <3>2. req[q] # 0 /\ req[q] # req[s]
      BY <2>2, <3>1 DEF IInv, Requesters, Requests
    <3> QED BY <1>1, <3>1, <3>2
  <2> QED BY <2>1, <2>2 DEF Requesters
<1>4. Written'
  BY <1>1 DEF IInv, Written
<1>5. Progress'
  <2> SUFFICES ASSUME NEW q \in Processes
               PROVE  /\ at'[q] \in {"user", "secrets", "users"}
                            => record[id'[q]]["secret"] # 0
                      /\ at'[q] \in {"secrets", "users"} => record[id'[q]]["user"] # 0
                      /\ at'[q] = "users" => secrets[req'[q]] = id'[q]
    BY DEF Progress
  <2>1. CASE q = p
    BY <1>1, <2>1
  <2>2. CASE q # p
    BY <1>1, <2>2 DEF IInv, Progress
  <2> QED BY <2>1, <2>2
<1>6. "idle" \notin Creating /\ "idle" \notin Writing
  BY PlacesAre DEF Writing
<1>7. Overlaps'
  BY <1>1, <1>6 DEF IInv, Overlaps
<1>8. Contended'
  BY <1>1, <1>6 DEF IInv, Contended
<1>9. Owned'
  BY DEF IInv, Owned
<1> QED BY <1>1, <1>2, <1>3, <1>4, <1>5, <1>7, <1>8, <1>9

\* A process that leaves without creating a session.
LEMMA LeavingCreatesNone ==
    ASSUME IInv, NEW p \in Processes, at[p] # "idle",
           at' = [at EXCEPT ![p] = "idle"], req' = [req EXCEPT ![p] = 0],
           id' = [id EXCEPT ![p] = 0],
           UNCHANGED <<shared, asked, beside>>,
           crashes' \in 0 .. MaxCrashes,
           answer' \in [Requests -> [Fields -> 0 .. MaxRequests]],
           Created' \subseteq Created
    PROVE  IInv'
<1> USE DEF shared
<1>1. /\ at' \in [Processes -> Places] /\ req' \in [Processes -> 0 .. MaxRequests]
      /\ id' \in [Processes -> 0 .. MaxId]
      /\ at'[p] = "idle" /\ req'[p] = 0
      /\ \A q \in Processes \ {p} : at'[q] = at[q] /\ req'[q] = req[q] /\ id'[q] = id[q]
      /\ Requesters' /\ Written' /\ Progress' /\ Overlaps' /\ Contended' /\ Owned'
  BY LeavingKeeps
<1>2. TypeOK'
  BY <1>1 DEF IInv, TypeOK
<1>3. Findable'
  BY DEF IInv, Findable
<1>4. ASSUME NEW r \in Created'
      PROVE  Kept(r)'
  <2>1. Kept(r) /\ r \in Requests
    BY <1>4 DEF IInv, Created
  <2>2. \A q \in Processes :
           /\ req'[q] # r
           /\ at'[q] \in Creating /\ asked[req'[q]] = asked[r] => <<r, req'[q]>> \in beside
    BY <1>1, <2>1, PlacesAre DEF Kept, Requests, Writing
  <2>3. Alone(r)' => Alone(r)
    BY DEF Alone
  <2> QED BY <2>1, <2>2, <2>3 DEF Kept
<1> QED BY <1>1, <1>2, <1>3, <1>4 DEF IInv

\* A session that is looked up was not written for the request that asks.
LEMMA KnownIsForOthers ==
    ASSUME IInv, NEW p \in Processes, at[p] = "known"
    PROVE  LET i == users[asked[req[p]]] IN
             /\ req[p] \in Requests /\ asked[req[p]] \in Users /\ i \in Ids
             /\ record[i]["secret"] # req[p]
<1> DEFINE i == users[asked[req[p]]]
<1>1. req[p] \in Requests /\ asked[req[p]] \in Users /\ i # 0
  BY DEF IInv, Requesters
<1>2. i \in Ids
  BY <1>1 DEF IInv, TypeOK, Ids
<1>3. record[i]["secret"] # req[p]
  <2>1. "secret" \in Fields /\ req[p] # 0 /\ "known" \notin Writing
    BY <1>1 DEF Fields, Requests, Writing
  <2> QED BY <1>2, <2>1 DEF IInv, Written
<1> QED BY <1>1, <1>2, <1>3

LEMMA KnownKeeps ==
    ASSUME IInv, NEW p \in Processes, Known(p)
    PROVE  IInv'
<1> DEFINE i == users[asked[req[p]]]
<1>1. /\ at[p] = "known" /\ answer' = [answer EXCEPT ![req[p]] = record[i]]
      /\ at' = [at EXCEPT ![p] = "idle"] /\ req' = [req EXCEPT ![p] = 0]
      /\ id' = [id EXCEPT ![p] = 0] /\ UNCHANGED <<shared, asked, beside, crashes>>
  BY DEF Known, Done, Go, User
<1>2. req[p] \in Requests /\ i \in Ids /\ record[i]["secret"] # req[p]
  BY <1>1, KnownIsForOthers
<1> HIDE DEF i
<1>3. /\ answer' \in [Requests -> [Fields -> 0 .. MaxRequests]]
      /\ answer'[req[p]] = record[i]
      /\ \A r \in Requests \ {req[p]} : answer'[r] = answer[r]
  BY <1>1, <1>2 DEF IInv, TypeOK
<1>4. Created' \subseteq Created
  BY <1>2, <1>3 DEF Created
<1> QED BY <1>1, <1>3, <1>4, LeavingCreatesNone DEF IInv, TypeOK

LEMMA CrashKeeps ==
    ASSUME IInv, NEW p \in Processes, Crash(p)
    PROVE  IInv'
<1>1. /\ at[p] # "idle" /\ at' = [at EXCEPT ![p] = "idle"]
      /\ req' = [req EXCEPT ![p] = 0] /\ id' = [id EXCEPT ![p] = 0]
      /\ UNCHANGED <<shared, asked, answer, beside>>
  BY DEF Crash, Go
<1>2. crashes' \in 0 .. MaxCrashes
  BY BoundsAssumption DEF IInv, TypeOK, Crash
<1>3. Created' \subseteq Created
  BY <1>1 DEF Created
<1> QED BY <1>1, <1>2, <1>3, LeavingCreatesNone DEF IInv, TypeOK

\* A process goes from one write to the next.
LEMMA WritingOnKeeps ==
    ASSUME IInv, NEW p \in Processes, at[p] \in Writing,
           NEW x \in Writing, at' = [at EXCEPT ![p] = x],
           UNCHANGED <<next, users, req, id, asked, answer, crashes, beside>>
    PROVE  /\ at' \in [Processes -> Places]
           /\ at'[p] = x /\ \A q \in Processes \ {p} : at'[q] = at[q]
           /\ req[p] \in Requests /\ id[p] \in Ids /\ asked[req[p]] \in Users
           /\ \A q \in Processes \ {p} : at[q] # "idle" => req[q] # req[p]
           /\ \A q \in Processes \ {p} : at[q] \in Writing =>
                 <<req[p], req[q]>> \in beside /\ <<req[q], req[p]>> \in beside
           /\ Requesters' /\ Overlaps'
<1>1. /\ at'[p] = x /\ \A q \in Processes \ {p} : at'[q] = at[q]
      /\ at' \in [Processes -> Places]
  BY PlacesAre DEF IInv, TypeOK
<1>2. /\ at[p] # "idle" /\ x # "idle" /\ x # "known"
      /\ at[p] \in Creating /\ x \in Creating
  BY PlacesAre DEF Writing
<1>3. req[p] \in Requests /\ asked[req[p]] \in Users /\ id[p] \in Ids
  BY <1>2 DEF IInv, Requesters, TypeOK, Ids
<1>4. Requesters'
  <2>1. ASSUME NEW q \in Processes
        PROVE  /\ at'[q] = "idle" => req'[q] = 0
               /\ at'[q] # "idle" => req'[q] \in Requests /\ asked'[req'[q]] \in Users
               /\ at'[q] = "known" => users'[asked'[req'[q]]] # 0
               /\ at'[q] \in Writing \union {"check"} => id'[q] # 0
    <3>1. CASE q = p
      BY <1>1, <1>2, <1>3, <3>1 DEF Ids
    <3>2. CASE q # p
      BY <1>1, <3>2 DEF IInv, Requesters
    <3> QED BY <3>1, <3>2
  <2>2. \A q, s \in Processes : q # s /\ at'[q] # "idle" => req'[q] # req'[s]
    BY <1>1, <1>2 DEF IInv, Requesters
  <2> QED BY <2>1, <2>2 DEF Requesters
<1>5. Overlaps'
  <2>1. \A q \in Processes : at'[q] \in Creating => at[q] \in Creating
    BY <1>1, <1>2
  <2> QED BY <2>1 DEF IInv, Overlaps
<1>6. \A q \in Processes \ {p} : at[q] \in Writing =>
         <<req[p], req[q]>> \in beside /\ <<req[q], req[p]>> \in beside
  BY <1>2, PlacesAre DEF IInv, Overlaps
<1>7. \A q \in Processes \ {p} : at[q] # "idle" => req[q] # req[p]
  BY DEF IInv, Requesters
<1> QED BY <1>1, <1>3, <1>4, <1>5, <1>6, <1>7

\* Sessions created before stay kept.
LEMMA WritingOnKept ==
    ASSUME IInv, NEW p \in Processes, at[p] \in Writing,
           NEW x \in Writing, at' = [at EXCEPT ![p] = x],
           UNCHANGED <<next, users, req, id, asked, answer, crashes, beside>>,
           \A r \in Requests : r # req[p] => secrets'[r] = secrets[r]
    PROVE  \A r \in Created' : Kept(r)'
<1> SUFFICES ASSUME NEW r \in Created PROVE Kept(r)'
  BY DEF Created
<1>1. Kept(r) /\ r \in Requests
  BY DEF IInv, Created
<1>2. \A q \in Processes : at'[q] \in Creating => at[q] \in Creating
  BY PlacesAre DEF IInv, TypeOK
<1>3. secrets'[r] = secrets[r]
  BY <1>1 DEF Kept
<1>4. Alone(r)' <=> Alone(r)
  BY DEF Alone
<1> QED BY <1>1, <1>2, <1>3, <1>4 DEF Kept

\* A field of the session's hash is written.
LEMMA FieldWriteKeeps ==
    ASSUME IInv, NEW p \in Processes, NEW f \in Fields, at[p] = f,
           NEW x \in Writing, at' = [at EXCEPT ![p] = x],
           record' = [record EXCEPT ![id[p]][f] = req[p]],
           UNCHANGED <<next, secrets, users, req, id, asked, answer, crashes, beside>>,
           f = "secret" => x = "user", f = "user" => x = "secrets"
    PROVE  IInv'
<1>1. /\ at' \in [Processes -> Places]
      /\ at'[p] = x /\ \A q \in Processes \ {p} : at'[q] = at[q]
      /\ req[p] \in Requests /\ id[p] \in Ids /\ asked[req[p]] \in Users
      /\ \A q \in Processes \ {p} : at[q] # "idle" => req[q] # req[p]
      /\ \A q \in Processes \ {p} : at[q] \in Writing =>
            <<req[p], req[q]>> \in beside /\ <<req[q], req[p]>> \in beside
      /\ Requesters' /\ Overlaps'
  BY WritingOnKeeps DEF Fields, Writing
<1>2. /\ record'[id[p]][f] = req[p] /\ req[p] # 0
      /\ \A i \in Ids, g \in Fields : i # id[p] \/ g # f => record'[i][g] = record[i][g]
      /\ record' \in [Ids -> [Fields -> 0 .. MaxRequests]]
  BY <1>1 DEF IInv, TypeOK, Requests
<1>3. \A i \in Ids, g \in Fields : record[i][g] # 0 => record'[i][g] # 0
  BY <1>2
<1>4. at[p] \in Writing /\ "secret" \in Fields /\ "user" \in Fields
        /\ f \in {"secret", "user"}
  BY DEF Fields, Writing
<1>5. TypeOK'
  BY <1>1, <1>2 DEF IInv, TypeOK
<1>6. Written'
  <2> SUFFICES ASSUME NEW i \in Ids, NEW g \in Fields, record'[i][g] # 0
               PROVE  /\ asked[record'[i][g]] # None
                      /\ \A q \in Processes : req[q] = record'[i][g] => at'[q] \in Writing
    BY DEF Written
  <2>1. CASE i = id[p] /\ g = f
    <3>1. asked[req[p]] # None
      BY <1>1, NoneAssumption
    <3>2. ASSUME NEW q \in Processes, req[q] = req[p]
          PROVE  at'[q] \in Writing
      BY <1>1, <1>2, <3>2 DEF IInv, Requesters
    <3> QED BY <1>2, <2>1, <3>1, <3>2
  <2>2. CASE ~(i = id[p] /\ g = f)
    <3>1. record'[i][g] = record[i][g]
      BY <1>2, <2>2
    <3>2. \A q \in Processes : at[q] \in Writing => at'[q] \in Writing
      BY <1>1
    <3> QED BY <3>1, <3>2 DEF IInv, Written
  <2> QED BY <2>1, <2>2
<1>7. Progress'
  <2> SUFFICES ASSUME NEW q \in Processes
               PROVE  /\ at'[q] \in {"user", "secrets", "users"}
                            => record'[id[q]]["secret"] # 0
                      /\ at'[q] \in {"secrets", "users"} => record'[id[q]]["user"] # 0
                      /\ at'[q] = "users" => secrets[req[q]] = id[q]
    BY DEF Progress
  <2>1. CASE q = p
    <3>1. f = "user" => record[id[p]]["secret"] # 0
      BY DEF IInv, Progress
    <3> QED BY <1>1, <1>2, <1>3, <1>4, <2>1, <3>1
  <2>2. CASE q # p
    <3>1. at[q] \in Writing => id[q] \in Ids
      BY DEF IInv, TypeOK, Requesters, Ids
    <3> QED BY <1>1, <1>3, <1>4, <2>2, <3>1 DEF IInv, Progress, Writing
  <2> QED BY <2>1, <2>2
<1>8. Findable'
  BY <1>3 DEF IInv, Findable
<1>9. Contended'
  <2> SUFFICES ASSUME NEW q \in Processes, at'[q] \in Writing
               PROVE  /\ \A r \in Requests : r # req[q] /\ secrets[r] = id[q]
                            => <<r, req[q]>> \in beside
                      /\ \A g \in Fields : record'[id[q]][g] \notin {0, req[q]}
                            => <<req[q], record'[id[q]][g]>> \in beside
    BY DEF Contended
  <2>1. at[q] \in Writing /\ id[q] \in Ids
    BY <1>1, <1>4 DEF IInv, TypeOK, Requesters, Ids
  <2>2. ASSUME NEW g \in Fields, record'[id[q]][g] \notin {0, req[q]}
        PROVE  <<req[q], record'[id[q]][g]>> \in beside
    <3>1. CASE id[q] = id[p] /\ g = f
      BY <1>1, <1>2, <2>1, <2>2, <3>1
    <3>2. CASE ~(id[q] = id[p] /\ g = f)
      <4>1. record'[id[q]][g] = record[id[q]][g]
        BY <1>2, <2>1, <3>2
      <4> QED BY <2>1, <2>2, <4>1 DEF IInv, Contended
    <3> QED BY <3>1, <3>2
  <2> QED BY <2>1, <2>2 DEF IInv, Contended
<1>10. Owned'
  <2> SUFFICES ASSUME NEW r \in Requests, secrets[r] # 0, NEW g \in Fields
               PROVE  record'[secrets[r]][g] = r \/ <<r, record'[secrets[r]][g]>> \in beside
    BY DEF Owned
  <2>1. secrets[r] \in Ids
    BY DEF IInv, TypeOK, Ids
  <2>2. CASE secrets[r] = id[p] /\ g = f
    BY <1>2, <1>4, <2>2 DEF IInv, Contended
  <2>3. CASE ~(secrets[r] = id[p] /\ g = f)
    <3>1. record'[secrets[r]][g] = record[secrets[r]][g]
      BY <1>2, <2>1, <2>3
    <3> QED BY <3>1 DEF IInv, Owned
  <2> QED BY <2>2, <2>3
<1>11. \A r \in Created' : Kept(r)'
  BY <1>4, WritingOnKept
<1> QED BY <1>1, <1>5, <1>6, <1>7, <1>8, <1>9, <1>10, <1>11 DEF IInv

\* The session can be found by its secret.
LEMMA SecretWriteKeeps ==
    ASSUME IInv, NEW p \in Processes, at[p] = "secrets",
           at' = [at EXCEPT ![p] = "users"],
           secrets' = [secrets EXCEPT ![req[p]] = id[p]],
           UNCHANGED <<next, record, users, req, id, asked, answer, crashes, beside>>
    PROVE  IInv'
<1>1. /\ at' \in [Processes -> Places]
      /\ at'[p] = "users" /\ \A q \in Processes \ {p} : at'[q] = at[q]
      /\ req[p] \in Requests /\ id[p] \in Ids /\ asked[req[p]] \in Users
      /\ \A q \in Processes \ {p} : at[q] # "idle" => req[q] # req[p]
      /\ \A q \in Processes \ {p} : at[q] \in Writing =>
            <<req[p], req[q]>> \in beside /\ <<req[q], req[p]>> \in beside
      /\ Requesters' /\ Overlaps'
  BY WritingOnKeeps DEF Writing
<1>2. /\ secrets'[req[p]] = id[p]
      /\ \A r \in Requests \ {req[p]} : secrets'[r] = secrets[r]
      /\ secrets' \in [Requests -> 0 .. MaxId]
  BY <1>1 DEF IInv, TypeOK, Ids
<1>3. \A f \in Fields : record[id[p]][f] # 0
  BY DEF IInv, Progress, Fields
<1>4. \A q \in Processes : at'[q] \in Writing => at[q] \in Writing
  BY <1>1 DEF Writing
<1>5. TypeOK'
  BY <1>1, <1>2 DEF IInv, TypeOK
<1>6. Written'
  BY <1>1 DEF IInv, Written, Writing
<1>7. Progress'
  <2> SUFFICES ASSUME NEW q \in Processes
               PROVE  /\ at'[q] \in {"user", "secrets", "users"}
                            => record[id[q]]["secret"] # 0
                      /\ at'[q] \in {"secrets", "users"} => record[id[q]]["user"] # 0
                      /\ at'[q] = "users" => secrets'[req[q]] = id[q]
    BY DEF Progress
  <2>1. CASE q = p
    BY <1>2, <1>3, <2>1 DEF Fields
  <2>2. CASE q # p
    <3>1. at[q] = "users" => req[q] \in Requests /\ req[q] # req[p]
      BY <1>1, <2>2 DEF IInv, Requesters
    <3> QED BY <1>1, <1>2, <2>2, <3>1 DEF IInv, Progress
  <2> QED BY <2>1, <2>2
<1>8. Findable'
  BY <1>2, <1>3 DEF IInv, Findable
<1>9. Contended'
  <2> SUFFICES ASSUME NEW q \in Processes, at[q] \in Writing, NEW r \in Requests,
                      r # req[q], secrets'[r] = id[q]
               PROVE  <<r, req[q]>> \in beside
    BY <1>4 DEF IInv, Contended
  <2>1. CASE r = req[p]
    BY <1>1, <2>1
  <2>2. CASE r # req[p]
    BY <1>2, <2>2 DEF IInv, Contended
  <2> QED BY <2>1, <2>2
<1>10. Owned'
  <2> SUFFICES ASSUME NEW r \in Requests, secrets'[r] # 0, NEW f \in Fields
               PROVE  record[secrets'[r]][f] = r \/ <<r, record[secrets'[r]][f]>> \in beside
    BY DEF Owned
  <2>1. CASE r = req[p]
    <3>1. at[p] \in Writing
      BY DEF Writing
    <3> QED BY <1>2, <1>3, <2>1, <3>1 DEF IInv, Contended
  <2>2. CASE r # req[p]
    BY <1>2, <2>2 DEF IInv, Owned
  <2> QED BY <2>1, <2>2
<1>11. \A r \in Created' : Kept(r)'
  BY <1>2, WritingOnKept DEF Writing
<1> QED BY <1>1, <1>5, <1>6, <1>7, <1>8, <1>9, <1>10, <1>11 DEF IInv

\* The session can be found by its user, and answers the request.
LEMMA UserWriteKeeps ==
    ASSUME IInv, NEW p \in Processes, at[p] = "users",
           Done(p, [f \in Fields |-> req[p]]),
           users' = [users EXCEPT ![asked[req[p]]] = id[p]],
           UNCHANGED <<next, record, secrets, asked, crashes, beside>>
    PROVE  IInv'
<1> DEFINE n == req[p]
           u == asked[req[p]]
<1>1. /\ n \in Requests /\ u \in Users /\ id[p] \in Ids /\ id[p] # 0
      /\ secrets[n] = id[p] /\ \A f \in Fields : record[id[p]][f] # 0
  BY DEF IInv, TypeOK, Requesters, Progress, Ids, Fields, Writing
<1>2. /\ users'[u] = id[p] /\ \A v \in Users \ {u} : users'[v] = users[v]
      /\ users' \in [Users -> 0 .. MaxId]
  BY <1>1 DEF IInv, TypeOK, Ids
<1>3. /\ at' \in [Processes -> Places] /\ req' \in [Processes -> 0 .. MaxRequests]
      /\ id' \in [Processes -> 0 .. MaxId]
      /\ at'[p] = "idle" /\ req'[p] = 0
      /\ \A q \in Processes \ {p} : at'[q] = at[q] /\ req'[q] = req[q] /\ id'[q] = id[q]
      /\ Requesters' /\ Written' /\ Progress' /\ Overlaps' /\ Contended' /\ Owned'
  BY <1>1, <1>2, LeavingKeeps DEF Done, Go
<1>4. /\ answer' \in [Requests -> [Fields -> 0 .. MaxRequests]]
      /\ \A r \in Requests \ {n} : answer'[r] = answer[r]
  <2>1. answer' = [answer EXCEPT ![n] = [f \in Fields |-> n]]
    BY DEF Done
  <2>2. [f \in Fields |-> n] \in [Fields -> 0 .. MaxRequests]
    BY <1>1 DEF Requests
  <2> QED BY <1>1, <2>1, <2>2 DEF IInv, TypeOK
<1>5. TypeOK'
  BY <1>2, <1>3, <1>4 DEF IInv, TypeOK
<1>6. Findable'
  <2> SUFFICES ASSUME NEW i \in Ids,
                      \/ \E r \in Requests : secrets[r] = i
                      \/ \E v \in Users : users'[v] = i,
                      NEW f \in Fields
               PROVE  record[i][f] # 0
    BY DEF Findable
  <2>1. i = id[p] \/ (\E r \in Requests : secrets[r] = i) \/ \E v \in Users : users[v] = i
    BY <1>1, <1>2
  <2> QED BY <1>1, <2>1 DEF IInv, Findable
<1> HIDE DEF n, u
<1>7. Created' \subseteq Created \union {n}
  BY <1>4 DEF Created
<1>8. /\ at[p] \in Creating /\ "idle" \notin Creating
      /\ \A q \in Processes : at'[q] \in Creating => q # p /\ at[q] \in Creating
                                                       /\ req'[q] = req[q]
  BY <1>3, PlacesAre DEF Writing
<1>9. ASSUME NEW r \in Created'
      PROVE  Kept(r)'
  <2>1. r \in Requests /\ r # 0
    BY <1>9 DEF Created, Requests
  <2>2. CASE r = n
    <3>1. \A q \in Processes : req'[q] # n
      <4>1. \A q \in Processes \ {p} : req[q] # n
        BY DEF IInv, Requesters, n
      <4> QED BY <1>3, <2>1, <2>2, <4>1
    <3>2. \A q \in Processes : at'[q] \in Creating => <<n, req'[q]>> \in beside
      BY <1>8 DEF IInv, Overlaps, n
    <3>3. asked[n] = u
      BY DEF n, u
    <3> QED BY <1>1, <1>2, <2>2, <3>1, <3>2, <3>3 DEF Kept
  <2>3. CASE r # n
    <3>1. Kept(r)
      BY <1>7, <1>9, <2>3 DEF IInv
    <3>2. users'[asked[r]] # 0
      BY <1>1, <1>2, <3>1 DEF Kept
    <3>3. ASSUME Alone(r)' PROVE users'[asked[r]] = secrets[r]
      <4>1. Alone(r)
        BY <3>3 DEF Alone
      <4>2. asked[r] # u
        <5>1. <<r, n>> \notin beside
          BY <1>1, <4>1 DEF Alone
        <5> QED BY <1>8, <3>1, <5>1 DEF Kept, n, u
      <4> QED BY <1>2, <3>1, <4>1, <4>2 DEF Kept
    <3>4. \A q \in Processes :
             /\ req'[q] # r
             /\ at'[q] \in Creating /\ asked[req'[q]] = asked[r] => <<r, req'[q]>> \in beside
      BY <1>3, <1>8, <2>1, <3>1 DEF Kept
    <3> QED BY <3>1, <3>2, <3>3, <3>4 DEF Kept
  <2> QED BY <2>2, <2>3
<1> QED BY <1>3, <1>5, <1>6, <1>9 DEF IInv

LEMMA WriteKeeps ==
    ASSUME IInv, NEW p \in Processes, Write(p)
    PROVE  IInv'
<1>1. UNCHANGED <<next, asked, beside, crashes>>
  BY WriteCases
<1>2. CASE /\ at[p] = "secret" /\ Go(p, "user")
           /\ record' = [record EXCEPT ![id[p]]["secret"] = req[p]]
           /\ UNCHANGED <<secrets, users, req, id, answer>>
  <2>1. "secret" \in Fields /\ "user" \in Writing
    BY DEF Fields, Writing
  <2> QED BY <1>1, <1>2, <2>1, FieldWriteKeeps DEF Go
<1>3. CASE /\ at[p] = "user" /\ Go(p, "secrets")
           /\ record' = [record EXCEPT ![id[p]]["user"] = req[p]]
           /\ UNCHANGED <<secrets, users, req, id, answer>>
  <2>1. "user" \in Fields /\ "secrets" \in Writing
    BY DEF Fields, Writing
  <2> QED BY <1>1, <1>3, <2>1, FieldWriteKeeps DEF Go
<1>4. CASE /\ at[p] = "secrets" /\ Go(p, "users")
           /\ secrets' = [secrets EXCEPT ![req[p]] = id[p]]
           /\ UNCHANGED <<record, users, req, id, answer>>
  BY <1>1, <1>4, SecretWriteKeeps DEF Go
<1>5. CASE /\ at[p] = "users" /\ Done(p, [f \in Fields |-> req[p]])
           /\ users' = [users EXCEPT ![User(p)] = id[p]]
           /\ UNCHANGED <<record, secrets>>
  BY <1>1, <1>5, UserWriteKeeps DEF User
<1> QED BY <1>2, <1>3, <1>4, <1>5, WriteCases

LEMMA StutterKeeps ==
    ASSUME IInv, UNCHANGED vars
    PROVE  IInv'
<1> USE DEF vars, shared
<1>1. TypeOK' /\ Requesters' /\ Written' /\ Progress'
  BY DEF IInv, TypeOK, Requesters, Written, Progress
<1>2. Findable' /\ Overlaps' /\ Contended' /\ Owned'
  BY DEF IInv, Findable, Overlaps, Contended, Owned
<1>3. \A r \in Created' : Kept(r)'
  BY DEF IInv, Created, Kept, Alone
<1> QED BY <1>1, <1>2, <1>3 DEF IInv

LEMMA StepKeeps == IInv /\ [Next]_vars => IInv'
<1> SUFFICES ASSUME IInv, [Next]_vars PROVE IInv'
  OBVIOUS
<1>1. CASE \E p \in Processes : Handle(p)
  BY <1>1, NeedsKeeps, KnownKeeps, GetKeeps, BumpKeeps, CheckKeeps, WriteKeeps
     DEF Handle
<1>2. CASE \E p \in Processes : Crash(p)
  BY <1>2, CrashKeeps
<1>3. CASE \E p \in Processes : \E u \in Users : Ask(p, u)
  BY <1>3, AskKeeps
<1>4. CASE UNCHANGED vars
  BY <1>4, StutterKeeps
<1> QED BY <1>1, <1>2, <1>3, <1>4 DEF Next

LEMMA AlwaysInvariant == Spec => []IInv
BY InitHolds, StepKeeps, PTL DEF Spec

-----------------------------------------------------------------------------
(* The theorems *)

\* For any processes, users, requests and restarts: a session that can be found
\* has all its fields, and the secret a client was given finds the session that
\* was created for it unless another was created beside it under the same id.
THEOREM SecretsFindTheirSessions == Spec => []OwnSessionUnlessBeside
<1>1. ASSUME IInv, NEW r \in Created
      PROVE  \/ secrets[r] # 0 /\ record[secrets[r]] = [f \in Fields |-> r]
             \/ \E q \in Requests : <<r, q>> \in beside
                                   /\ \E f \in Fields : record[secrets[r]][f] = q
  <2>1. r \in Requests /\ secrets[r] # 0 /\ secrets[r] \in Ids
    BY <1>1 DEF IInv, TypeOK, Kept, Created, Ids
  <2>2. record[secrets[r]] \in [Fields -> 0 .. MaxRequests]
    BY <1>1, <2>1 DEF IInv, TypeOK
  <2>3. CASE \A f \in Fields : record[secrets[r]][f] = r
    <3>1. record[secrets[r]] = [f \in Fields |-> r]
      BY <2>2, <2>3
    <3> QED BY <2>1, <3>1
  <2>4. CASE \E f \in Fields : record[secrets[r]][f] # r
    <3>1. PICK f \in Fields : record[secrets[r]][f] # r
      BY <2>4
    <3>2. <<r, record[secrets[r]][f]>> \in beside
      BY <1>1, <2>1, <3>1 DEF IInv, Owned
    <3>3. record[secrets[r]][f] \in Requests
      BY <1>1, <2>1, <2>2 DEF IInv, Findable, Requests
    <3> QED BY <3>2, <3>3
  <2> QED BY <2>3, <2>4
<1>2. IInv => OwnSessionUnlessBeside
  BY <1>1 DEF IInv, OwnSessionUnlessBeside, Findable
<1> QED BY <1>2, AlwaysInvariant, PTL

\* For any processes and users: once a session was created for a user with none
\* beside it, whatever session a service answers that user with is that one.
THEOREM SessionsAreShared == Spec => SessionIsShared
<1> DEFINE Shared == \A r \in Created, q \in Requests :
                        /\ Alone(r) /\ asked[q] = asked[r]
                        /\ answer[q] = NoFields /\ answer'[q] # NoFields
                        => answer'[q] = [f \in Fields |-> r]
<1>1. IInv /\ [Next]_vars => [Shared]_vars
  <2> SUFFICES ASSUME IInv, Next, NEW r \in Created, NEW q \in Requests,
                      Alone(r), asked[q] = asked[r],
                      answer[q] = NoFields, answer'[q] # NoFields
               PROVE  answer'[q] = [f \in Fields |-> r]
    OBVIOUS
  <2>1. Kept(r) /\ r \in Requests /\ secrets[r] \in Ids
    BY DEF IInv, Created, TypeOK, Kept, Ids
  <2>2. PICK p \in Processes : Handle(p) \/ Crash(p) \/ \E u \in Users : Ask(p, u)
    BY DEF Next
  <2>3. CASE Known(p)
    <3> DEFINE i == users[asked[req[p]]]
    <3>1. at[p] = "known" /\ answer' = [answer EXCEPT ![req[p]] = record[i]]
      BY <2>3 DEF Known, Done, User
    <3>2. q = req[p]
      BY <3>1 DEF IInv, TypeOK
    <3>3. i = secrets[r]
      BY <2>1, <3>2 DEF Kept
    <3>4. answer'[q] = record[secrets[r]]
      BY <3>1, <3>2, <3>3 DEF IInv, TypeOK
    <3>5. record[secrets[r]] \in [Fields -> 0 .. MaxRequests]
      BY <2>1 DEF IInv, TypeOK
    <3>6. \A f \in Fields : record[secrets[r]][f] = r
      <4> SUFFICES ASSUME NEW f \in Fields, record[secrets[r]][f] # r
                   PROVE  FALSE
        OBVIOUS
      <4>1. <<r, record[secrets[r]][f]>> \in beside
        BY <2>1 DEF IInv, Owned, Kept
      <4>2. record[secrets[r]][f] \in Requests
        BY <2>1, <3>5 DEF IInv, Findable, Requests
      <4> QED BY <4>1, <4>2 DEF Alone
    <3> QED BY <3>4, <3>5, <3>6
  <2>4. CASE Write(p)
    <3>1. CASE at[p] = "users" /\ Done(p, [f \in Fields |-> req[p]])
      <4>1. q = req[p]
        <5>1. answer' = [answer EXCEPT ![req[p]] = [f \in Fields |-> req[p]]]
          BY <3>1 DEF Done
        <5> QED BY <5>1 DEF IInv, TypeOK
      <4>2. <<r, q>> \in beside
        BY <2>1, <3>1, <4>1, PlacesAre DEF Kept, Writing
      <4> QED BY <4>2 DEF Alone
    <3>2. CASE UNCHANGED answer
      BY <3>2
    <3> QED BY <2>4, <3>1, <3>2, WriteCases
  <2>5. CASE \/ Needs(p) \/ Get(p) \/ Bump(p) \/ Check(p) \/ Crash(p)
            \/ \E u \in Users : Ask(p, u)
    <3>1. answer' = answer
      BY <2>5 DEF Needs, Get, Bump, Check, Crash, Ask
    <3> QED BY <3>1
  <2> QED BY <2>2, <2>3, <2>4, <2>5 DEF Handle
<1> QED BY <1>1, AlwaysInvariant, PTL DEF Spec, SessionIsShared

-----------------------------------------------------------------------------
(* The websocket client that tasks share: the inductive invariant *)

Receivers == {t \in Callers : pc[t] = "receiving"}
Unopened == {t \in Callers : pc[t] \in {"idle", "waiting", "opening"}}

\* The counter of the client never exceeds the tasks that are inside, though it
\* may fall behind them; and there are as many connections left to make as
\* tasks that may still make one.
Counted == /\ active <= Cardinality(Receivers)
           /\ made + Cardinality(Unopened) <= Cardinality(Callers)

\* Somebody uses the client's connection, and will leave it.
InUse == /\ connection # Nothing => \E t \in Callers : pc[t] \in {"receiving", "closing"}
         /\ \A t \in Callers : pc[t] \in {"receiving", "closing"} => on[t] # Nothing

\* Nothing is known of connections yet to be made.
Made == /\ connection # Nothing => connection <= made
        /\ open \union closed \subseteq 1 .. made
        /\ \A c \in Connections : c > made => answers[c] = <<>>

\* Unless an opening has been outwaited, one task at a time opens a connection,
\* while the client has none; and a task that closes one closes the client's,
\* or one that has been closed, and forgotten, already.
Orderly ==
    ~ overdue =>
        /\ open \subseteq {connection}
        /\ \A t \in Callers : pc[t] = "opening" =>
             /\ opening /\ connection = Nothing
             /\ \A u \in Callers : pc[u] = "opening" => u = t
        /\ \A t \in Callers : pc[t] = "closing" =>
             on[t] = connection \/ (connection = Nothing /\ on[t] \in closed)

\* A task that never met another one is the only one that does anything, has
\* the client's connection for itself, and its request or its reply, but
\* nothing else, is on the way.
Served(t) == result[t] = t \/ (result[t] = Error /\ failures + drops > 0)

Undisturbed ==
    \A t \in Callers \ met :
      /\ t \in Busy => Busy \subseteq {t}
      /\ pc[t] = "receiving" =>
           /\ connection = on[t]
           /\ \/ unanswered[on[t]] = <<t>> /\ answers[on[t]] = <<>>
              \/ unanswered[on[t]] = <<>> /\ answers[on[t]] = <<t>>
           /\ on[t] \in open \/ drops > 0
      /\ pc[t] \in {"closing", "done"} => Served(t)

ClientIInv == ClientTypeOK /\ Counted /\ InUse /\ Made /\ Orderly /\ Undisturbed

-----------------------------------------------------------------------------
(* Counting *)

LEMMA CountsAreNat ==
    ASSUME NEW S, S \subseteq Callers
    PROVE  IsFiniteSet(S) /\ Cardinality(S) \in Nat
BY CallersAssumption, FS_Subset, FS_CardinalityType

\* A task that leaves a set or enters it.
LEMMA OneLess ==
    ASSUME NEW S, S \subseteq Callers, NEW t \in S
    PROVE  Cardinality(S \ {t}) = Cardinality(S) - 1
BY CountsAreNat, FS_RemoveElement

LEMMA OneMore ==
    ASSUME NEW S, S \subseteq Callers, NEW t \in Callers, t \notin S
    PROVE  Cardinality(S \union {t}) = Cardinality(S) + 1
BY CountsAreNat, FS_AddElement

LEMMA SomeLeft ==
    ASSUME NEW S, S \subseteq Callers, Cardinality(S) > 0
    PROVE  S # {}
BY FS_EmptySet

\* What moving one task does to the two counts.
LEMMA Moved ==
    ASSUME ClientTypeOK, NEW t \in Callers, NEW there, pc' = [pc EXCEPT ![t] = there]
    PROVE  /\ pc[t] # "receiving" /\ there # "receiving" => Receivers' = Receivers
           /\ pc[t] = "receiving" /\ there # "receiving"
                => Receivers' = Receivers \ {t} /\ t \in Receivers
           /\ pc[t] # "receiving" /\ there = "receiving"
                => Receivers' = Receivers \union {t} /\ t \notin Receivers
           /\ there \in {"idle", "waiting", "opening"}
                => Unopened' \subseteq Unopened \union {t}
           /\ there \notin {"idle", "waiting", "opening"}
                => Unopened' = Unopened \ {t}
           /\ pc[t] \in {"idle", "waiting", "opening"} => t \in Unopened
BY DEF ClientTypeOK, Receivers, Unopened

\* A task that neither starts nor ends to wait for a reply, and does not forget
\* that it has opened a connection.
LEMMA MovedOutside ==
    ASSUME ClientTypeOK, NEW t \in Callers, NEW there, pc' = [pc EXCEPT ![t] = there],
           pc[t] # "receiving", there # "receiving",
           t \in Unopened \/ there \notin {"idle", "waiting", "opening"}
    PROVE  Receivers' = Receivers /\ Unopened' \subseteq Unopened
<1>1. \A u \in Callers : u # t => pc'[u] = pc[u]
  BY DEF ClientTypeOK
<1>2. pc'[t] = there
  BY DEF ClientTypeOK
<1>3. Receivers' = Receivers
  BY <1>1, <1>2 DEF Receivers
<1>4. Unopened' \subseteq Unopened
  BY <1>1, <1>2 DEF Unopened
<1> QED BY <1>3, <1>4

LEMMA FewerUnopened ==
    ASSUME ClientTypeOK, Counted, made' = made, Unopened' \subseteq Unopened
    PROVE  made' + Cardinality(Unopened') <= Cardinality(Callers)
<1>1. Unopened \subseteq Callers /\ Unopened' \subseteq Callers
  BY DEF Unopened
<1>2. Cardinality(Unopened') <= Cardinality(Unopened)
  BY <1>1, CountsAreNat, FS_Subset
<1>3. /\ Cardinality(Unopened) \in Nat /\ Cardinality(Unopened') \in Nat
      /\ Cardinality(Callers) \in Nat /\ made \in Nat
  BY <1>1, CountsAreNat DEF ClientTypeOK
<1> QED BY <1>2, <1>3 DEF Counted

-----------------------------------------------------------------------------
(* What a task leaves as it is while it enters, sends, receives or leaves *)

Rest == /\ UNCHANGED <<connection, closed, made, failures, drops>>
        /\ unanswered' \in [Connections -> Seq(Callers)]
        /\ answers' \in [Connections -> Seq(Callers)]
        /\ \A c \in Connections : c > made => answers'[c] = <<>>
        /\ late' \subseteq Callers
        /\ met' \subseteq Callers
        /\ overdue' \in BOOLEAN /\ (overdue => overdue')

Regular == ClientTypeOK /\ Counted /\ InUse /\ Made /\ Orderly

\* How a task leaves: the last one to be counted closes the connection.
LEMMA LeaveHas ==
    ASSUME ClientTypeOK, NEW t \in Callers, NEW outcome \in Callers \union {Error},
           NEW n \in Int, LeaveContext(t, outcome, n)
    PROVE  /\ active' = n - 1
           /\ result'[t] = outcome \/ (n <= 1 /\ connection = Nothing)
           /\ \A u \in Callers : u # t => result'[u] = result[u] /\ on'[u] = on[u]
                                          /\ pc'[u] = pc[u]
           /\ \E there \in {"closing", "done"} :
                /\ pc' = [pc EXCEPT ![t] = there]
                /\ there = "closing" <=> n <= 1 /\ connection # Nothing
                /\ there = "closing" => on'[t] = connection /\ open' = open \ {connection}
                /\ there = "done" => open' = open
           /\ result' \in [Callers -> Callers \union {Nothing, Error}]
           /\ on' \in [Callers -> Connections \union {Nothing}]
<1> DEFINE closes == n <= 1 /\ connection # Nothing
           there == IF closes THEN "closing" ELSE "done"
<1>1. /\ active' = n - 1
      /\ result' = [result EXCEPT ![t] = IF n <= 1 /\ connection = Nothing
                                         THEN Error ELSE outcome]
      /\ pc' = [pc EXCEPT ![t] = there]
      /\ on' = [on EXCEPT ![t] = IF closes THEN connection ELSE Nothing]
      /\ open' = IF closes THEN open \ {connection} ELSE open
  BY DEF LeaveContext
<1>2. there \in {"closing", "done"} /\ (there = "closing" <=> closes)
  OBVIOUS
<1> QED BY <1>1, <1>2 DEF ClientTypeOK

LEMMA LeavingContextKeeps ==
    ASSUME Regular, Rest, opening' = opening, NEW t \in Callers,
           pc[t] \in {"idle", "waiting", "receiving"},
           NEW outcome \in Callers \union {Error}, NEW n \in Int,
           n <= Cardinality(Receivers \union {t}), LeaveContext(t, outcome, n)
    PROVE  Regular'
<1>1. ClientTypeOK /\ Counted /\ InUse /\ Made /\ Orderly
  BY DEF Regular
<1>2. PICK there \in {"closing", "done"} :
        /\ pc' = [pc EXCEPT ![t] = there]
        /\ there = "closing" <=> n <= 1 /\ connection # Nothing
        /\ there = "closing" => on'[t] = connection /\ open' = open \ {connection}
        /\ there = "done" => open' = open
  BY <1>1, LeaveHas
<1>3. /\ active' = n - 1
      /\ \A u \in Callers : u # t => on'[u] = on[u] /\ pc'[u] = pc[u]
      /\ result' \in [Callers -> Callers \union {Nothing, Error}]
      /\ on' \in [Callers -> Connections \union {Nothing}]
  BY <1>1, LeaveHas
<1>4. open' \subseteq open
  BY <1>2
<1>5. ClientTypeOK'
  <2>1. /\ pc' \in [Callers -> {"idle", "waiting", "opening", "receiving",
                              "closing", "done"}]
        /\ closed \subseteq Connections \ open'
        /\ open' \subseteq Connections /\ active' \in Int
    BY <1>1, <1>2, <1>3, <1>4 DEF ClientTypeOK
  <2>2. /\ connection' = connection /\ closed' = closed /\ made' = made
        /\ failures' = failures /\ drops' = drops
    BY DEF Rest
  <2> QED BY <1>1, <1>3, <2>1, <2>2 DEF ClientTypeOK, Rest
<1>6. Receivers' = Receivers \ {t} /\ Unopened' \subseteq Unopened
  <2>1. CASE pc[t] = "receiving"
    BY <1>1, <1>2, <2>1, Moved
  <2>2. CASE pc[t] # "receiving"
    <3>1. t \notin Receivers /\ Receivers' = Receivers
      BY <1>1, <1>2, <2>2, Moved DEF Receivers
    <3>2. Unopened' = Unopened \ {t}
      BY <1>1, <1>2, Moved
    <3> QED BY <3>1, <3>2
  <2> QED BY <2>1, <2>2
<1>7. /\ n - 1 <= Cardinality(Receivers \ {t})
      /\ Cardinality(Receivers \ {t}) \in Nat
  <2> DEFINE R == Receivers \ {t}
  <2>1. R \subseteq Callers /\ t \notin R /\ Receivers \union {t} = R \union {t}
    BY DEF Receivers
  <2> HIDE DEF R
  <2>2. Cardinality(R \union {t}) = Cardinality(R) + 1 /\ Cardinality(R) \in Nat
    BY <2>1, OneMore, CountsAreNat
  <2>3. n \in Int /\ n <= Cardinality(R \union {t})
    BY <2>1
  <2> DEFINE k == Cardinality(R)
             l == Cardinality(R \union {t})
  <2> HIDE DEF k, l
  <2>4. l = k + 1 /\ k \in Nat /\ n \in Int /\ n <= l
    BY <2>2, <2>3 DEF k, l
  <2>5. n - 1 <= k
    BY <2>4
  <2> QED BY <2>2, <2>5 DEF R, k
<1>8. Counted'
  <2>1. made' + Cardinality(Unopened') <= Cardinality(Callers)
    BY <1>1, <1>6, FewerUnopened DEF Rest
  <2> QED BY <1>3, <1>6, <1>7, <2>1 DEF Counted
<1>9. InUse'
  <2>1. connection' # Nothing => \E u \in Callers : pc'[u] \in {"receiving", "closing"}
    <3>1. CASE there = "closing"
      BY <1>1, <1>2, <3>1 DEF ClientTypeOK
    <3>2. CASE there = "done" /\ connection # Nothing
      <4>1. Cardinality(Receivers \ {t}) > 0
        BY <1>2, <1>7, <3>2
      <4>2. PICK u : u \in Receivers \ {t}
        BY <4>1, SomeLeft DEF Receivers
      <4> QED BY <1>3, <4>2 DEF Receivers
    <3> QED BY <3>1, <3>2 DEF Rest
  <2>2. \A u \in Callers : pc'[u] \in {"receiving", "closing"} => on'[u] # Nothing
    BY <1>1, <1>2, <1>3 DEF ClientTypeOK, InUse
  <2> QED BY <2>1, <2>2 DEF InUse
<1>10. Made'
  BY <1>1, <1>4 DEF Made, Rest
<1>11. Orderly'
  <2> SUFFICES ASSUME ~ overdue' PROVE Orderly'
    BY DEF Orderly
  <2>1. ~ overdue
    BY DEF Rest
  <2>2. \A u \in Callers : pc'[u] = "opening" => pc[u] = "opening"
    BY <1>1, <1>2 DEF ClientTypeOK
  <2>3. \A u \in Callers : pc'[u] = "closing" =>
          \/ on'[u] = connection
          \/ pc[u] = "closing" /\ on'[u] = on[u]
    BY <1>1, <1>2, <1>3 DEF ClientTypeOK
  <2> QED BY <1>1, <1>4, <2>1, <2>2, <2>3 DEF Orderly, Rest
<1> QED BY <1>5, <1>8, <1>9, <1>10, <1>11 DEF Regular

\* A task takes its place among the receivers of the client's connection.
LEMMA ReceivingKeeps ==
    ASSUME Regular, Rest, opening' = opening, NEW t \in Callers,
           pc[t] \in {"idle", "waiting"}, connection # Nothing,
           Receives(t, connection, active + 1)
    PROVE  Regular'
<1>1. ClientTypeOK /\ Counted /\ InUse /\ Made /\ Orderly
  BY DEF Regular
<1>2. /\ pc' = [pc EXCEPT ![t] = "receiving"]
      /\ on' = [on EXCEPT ![t] = connection]
      /\ active' = active + 1 /\ open' = open /\ result' = result
  BY DEF Receives
<1>3. ClientTypeOK'
  BY <1>1, <1>2 DEF ClientTypeOK, Rest
<1>4. /\ Receivers' = Receivers \union {t} /\ t \notin Receivers
      /\ Unopened' \subseteq Unopened
  BY <1>1, <1>2, Moved
<1>5. Counted'
  <2>1. made' + Cardinality(Unopened') <= Cardinality(Callers)
    BY <1>1, <1>4, FewerUnopened DEF Rest
  <2>2. /\ Cardinality(Receivers') = Cardinality(Receivers) + 1
        /\ Cardinality(Receivers) \in Nat
    BY <1>4, OneMore, CountsAreNat DEF Receivers
  <2>3. active' <= Cardinality(Receivers')
    BY <1>1, <1>2, <2>2 DEF Counted, ClientTypeOK
  <2> QED BY <2>1, <2>3 DEF Counted
<1>6. InUse'
  BY <1>1, <1>2 DEF InUse, ClientTypeOK, Rest
<1>7. Made'
  BY <1>1, <1>2 DEF Made, Rest
<1>8. Orderly'
  BY <1>1, <1>2 DEF Orderly, ClientTypeOK, Rest
<1> QED BY <1>3, <1>5, <1>6, <1>7, <1>8 DEF Regular

\* A task begins to open a connection: the client has none.
LEMMA StartingKeeps ==
    ASSUME Regular, Rest, NEW t \in Callers, pc[t] \in {"idle", "waiting"},
           connection = Nothing, opening' = TRUE, ~ overdue' => ~ opening,
           pc' = [pc EXCEPT ![t] = "opening"],
           UNCHANGED <<active, open, on, result>>
    PROVE  Regular'
<1>1. ClientTypeOK /\ Counted /\ InUse /\ Made /\ Orderly
  BY DEF Regular
<1>2. ClientTypeOK'
  BY <1>1 DEF ClientTypeOK, Rest
<1>3. Receivers' = Receivers /\ Unopened' \subseteq Unopened
  <2>1. t \in Unopened
    BY DEF Unopened
  <2> QED BY <1>1, <2>1, MovedOutside
<1>4. Counted'
  BY <1>1, <1>3, FewerUnopened DEF Counted, Rest
<1>5. InUse'
  BY <1>1 DEF InUse, ClientTypeOK, Rest
<1>6. Made'
  BY <1>1 DEF Made, Rest
<1>7. Orderly'
  BY <1>1 DEF Orderly, ClientTypeOK, Rest
<1> QED BY <1>2, <1>4, <1>5, <1>6, <1>7 DEF Regular

LEMMA ProceedKeeps ==
    ASSUME Regular, NEW t \in Callers, pc[t] \in {"idle", "waiting"}, Proceed(t),
           UNCHANGED <<failures, drops>>, met' \subseteq Callers,
           overdue' \in BOOLEAN, overdue => overdue', ~ overdue' => ~ opening
    PROVE  Regular'
<1>1. ClientTypeOK /\ Counted /\ InUse /\ Made /\ Orderly
  BY DEF Regular
<1>2. \A c \in Connections : c > made => answers[c] = <<>>
  BY <1>1 DEF Made
<1>3. late \subseteq Callers /\ Waiting \subseteq Callers
  BY <1>1 DEF ClientTypeOK, Waiting
<1>4. CASE connection = Nothing
  <2>1. /\ opening' = TRUE /\ pc' = [pc EXCEPT ![t] = "opening"]
        /\ late' = (late \union Waiting) \ {t}
        /\ UNCHANGED <<connection, active, open, closed, made, unanswered, answers,
                       on, result>>
    BY <1>4 DEF Proceed, wires
  <2>2. Rest
    BY <1>1, <1>2, <1>3, <2>1 DEF Rest, ClientTypeOK
  <2> QED BY <1>4, <2>1, <2>2, StartingKeeps
<1>5. CASE connection # Nothing
  <2>1. /\ IF connection \in open
           THEN SendAndReceive(t, connection, active + 1)
           ELSE /\ Receives(t, connection, active + 1)
                /\ UNCHANGED <<unanswered, answers>>
        /\ late' = late \ {t}
        /\ UNCHANGED <<connection, opening, closed, made>>
    BY <1>5 DEF Proceed
  <2>2. connection \in Connections /\ connection <= made
    BY <1>1, <1>5 DEF ClientTypeOK, Made
  <2>3. CASE connection \notin open
    <3>1. Receives(t, connection, active + 1) /\ UNCHANGED <<unanswered, answers>>
      BY <2>1, <2>3
    <3>2. Rest
      BY <1>1, <1>2, <1>3, <2>1, <3>1 DEF Rest, ClientTypeOK
    <3> QED BY <1>5, <2>1, <3>1, <3>2, ReceivingKeeps
  <2>4. CASE connection \in open
    <3>1. SendAndReceive(t, connection, active + 1)
      BY <2>1, <2>4
    <3>2. unanswered' = [unanswered EXCEPT ![connection] = Append(@, t)]
      BY <3>1 DEF SendAndReceive
    <3>3. unanswered' \in [Connections -> Seq(Callers)]
      BY <1>1, <2>2, <3>2 DEF ClientTypeOK
    <3>4. active + 1 \in Int /\ active + 1 <= Cardinality(Receivers \union {t})
      <4>1. /\ Cardinality(Receivers \union {t}) = Cardinality(Receivers) + 1
            /\ Cardinality(Receivers) \in Nat
        BY OneMore, CountsAreNat DEF Receivers
      <4> QED BY <1>1, <4>1 DEF Counted, ClientTypeOK
    <3>5. CASE LeaveContext(t, Error, active + 1) /\ UNCHANGED answers
      <4>1. Rest
        BY <1>1, <1>2, <1>3, <2>1, <3>3, <3>5 DEF Rest, ClientTypeOK
      <4> QED BY <2>1, <3>4, <3>5, <4>1, LeavingContextKeeps
    <3>6. CASE /\ answers[connection] # <<>>
               /\ LeaveContext(t, Head(answers[connection]), active + 1)
               /\ answers' = [answers EXCEPT ![connection] = Tail(@)]
      <4>1. /\ answers[connection] \in Seq(Callers)
            /\ Head(answers[connection]) \in Callers
            /\ Tail(answers[connection]) \in Seq(Callers)
        BY <1>1, <2>2, <3>6 DEF ClientTypeOK
      <4>2. /\ answers' \in [Connections -> Seq(Callers)]
            /\ \A c \in Connections : c > made => answers'[c] = <<>>
        BY <1>1, <1>2, <2>2, <3>6, <4>1 DEF ClientTypeOK
      <4>3. Rest
        BY <1>1, <1>3, <2>1, <3>3, <4>2 DEF Rest, ClientTypeOK
      <4> QED BY <2>1, <3>4, <3>6, <4>1, <4>3, LeavingContextKeeps
    <3>7. CASE Receives(t, connection, active + 1) /\ UNCHANGED answers
      <4>1. Rest
        BY <1>1, <1>2, <1>3, <2>1, <3>3, <3>7 DEF Rest, ClientTypeOK
      <4> QED BY <1>5, <2>1, <3>7, <4>1, ReceivingKeeps
    <3> QED BY <3>1, <3>5, <3>6, <3>7 DEF SendAndReceive
  <2> QED BY <2>3, <2>4
<1> QED BY <1>4, <1>5

-----------------------------------------------------------------------------
(* The steps of a task *)

LEMMA EnterKeeps ==
    ASSUME Regular, NEW t \in Callers, Enter(t)
    PROVE  Regular'
<1>1. ClientTypeOK /\ Counted /\ InUse /\ Made /\ Orderly
  BY DEF Regular
<1>2. met' \subseteq Callers
  BY <1>1 DEF Enter, ClientTypeOK, Busy
<1>3. pc[t] = "idle" /\ UNCHANGED <<failures, drops, overdue>>
  BY DEF Enter
<1>4. CASE ~ opening /\ Proceed(t)
  BY <1>1, <1>2, <1>3, <1>4, ProceedKeeps DEF ClientTypeOK
<1>5. CASE /\ opening
           /\ pc' = [pc EXCEPT ![t] = "waiting"]
           /\ UNCHANGED <<client, late, wires, on, result>>
  <2>1. UNCHANGED <<connection, opening, active, late, open, closed, made, unanswered,
                    answers, on, result>>
    BY <1>5 DEF client, wires
  <2>2. ClientTypeOK'
    BY <1>1, <1>2, <1>3, <1>5, <2>1 DEF ClientTypeOK
  <2>3. Receivers' = Receivers /\ Unopened' \subseteq Unopened
    <3>1. t \in Unopened
      BY <1>3 DEF Unopened
    <3> QED BY <1>1, <1>3, <1>5, <3>1, MovedOutside
  <2>4. Counted'
    BY <1>1, <2>1, <2>3, FewerUnopened DEF Counted
  <2>5. InUse' /\ Made' /\ Orderly'
    BY <1>1, <1>3, <1>5, <2>1 DEF InUse, Made, Orderly, ClientTypeOK
  <2> QED BY <2>2, <2>4, <2>5 DEF Regular
<1> QED BY <1>4, <1>5 DEF Enter

LEMMA PollKeeps ==
    ASSUME Regular, NEW t \in Callers, Poll(t)
    PROVE  Regular'
<1>1. ClientTypeOK
  BY DEF Regular
<1>2. /\ pc[t] = "waiting" /\ Proceed(t) /\ overdue' = (overdue \/ opening)
      /\ UNCHANGED <<failures, drops, met>>
  BY DEF Poll
<1> QED BY <1>1, <1>2, ProceedKeeps DEF ClientTypeOK

LEMMA OpenedKeeps ==
    ASSUME Regular, NEW t \in Callers, Opened(t)
    PROVE  Regular' /\ made + 1 \in Connections
<1>1. ClientTypeOK /\ Counted /\ InUse /\ Made /\ Orderly
  BY DEF Regular
<1>2. PICK c : c = made + 1
  OBVIOUS
<1>3. /\ pc[t] = "opening" /\ Settled
      /\ connection' = c /\ made' = c /\ open' = open \union {c}
      /\ unanswered' = [unanswered EXCEPT ![c] = <<t>>]
      /\ pc' = [pc EXCEPT ![t] = "receiving"]
      /\ on' = [on EXCEPT ![t] = c]
      /\ opening' = FALSE /\ active' = active + 1
      /\ UNCHANGED <<closed, answers, late, result, failures, drops, met, overdue>>
  BY <1>2 DEF Opened
<1>4. /\ Receivers' = Receivers \union {t} /\ t \notin Receivers
      /\ Unopened' = Unopened \ {t} /\ t \in Unopened
  BY <1>1, <1>3, Moved
<1>5. /\ Cardinality(Unopened') = Cardinality(Unopened) - 1
      /\ Cardinality(Unopened') \in Nat /\ Cardinality(Unopened) \in Nat
      /\ Cardinality(Callers) \in Nat
  <2>1. Unopened \subseteq Callers /\ Unopened \ {t} \subseteq Callers
    BY DEF Unopened
  <2> QED BY <1>4, <2>1, OneLess, CountsAreNat
<1>6. c \in Nat /\ 1 <= c /\ c <= Cardinality(Callers) /\ made \in Nat
  BY <1>1, <1>2, <1>5 DEF ClientTypeOK, Counted
<1>7. c \in Connections /\ c # Nothing
  BY <1>6, ConnectionsAssumption DEF Connections
<1>8. c \notin open /\ c \notin closed
  <2>1. c \notin 1 .. made
    BY <1>2, <1>6
  <2> QED BY <1>1, <2>1 DEF Made
<1>9. ClientTypeOK'
  <2>1. <<t>> \in Seq(Callers)
    OBVIOUS
  <2>2. unanswered' \in [Connections -> Seq(Callers)]
    BY <1>1, <1>3, <2>1 DEF ClientTypeOK
  <2>3. made' \in 0 .. Cardinality(Callers) /\ active' \in Int
    BY <1>1, <1>3, <1>5, <1>6 DEF ClientTypeOK
  <2>4. open' \subseteq Connections /\ closed' \subseteq Connections \ open'
    BY <1>1, <1>3, <1>7, <1>8 DEF ClientTypeOK
  <2>5. /\ pc' \in [Callers -> {"idle", "waiting", "opening", "receiving",
                              "closing", "done"}]
        /\ on' \in [Callers -> Connections \union {Nothing}]
    BY <1>1, <1>3, <1>7 DEF ClientTypeOK
  <2> QED BY <1>1, <1>3, <1>7, <2>2, <2>3, <2>4, <2>5 DEF ClientTypeOK
<1>10. Counted'
  <2>1. made' + Cardinality(Unopened') <= Cardinality(Callers)
    BY <1>1, <1>2, <1>3, <1>5, <1>6 DEF Counted
  <2>2. /\ Cardinality(Receivers') = Cardinality(Receivers) + 1
        /\ Cardinality(Receivers) \in Nat
    BY <1>4, OneMore, CountsAreNat DEF Receivers
  <2>3. active' <= Cardinality(Receivers')
    BY <1>1, <1>3, <2>2 DEF Counted, ClientTypeOK
  <2> QED BY <2>1, <2>3 DEF Counted
<1>11. InUse'
  BY <1>1, <1>3, <1>7 DEF InUse, ClientTypeOK
<1>12. Made'
  <2>1. 1 .. made \subseteq 1 .. c /\ c \in 1 .. c
    BY <1>2, <1>6
  <2>2. \A e \in Connections : e > c => answers[e] = <<>>
    BY <1>1, <1>2, <1>6 DEF Made, Connections
  <2> QED BY <1>1, <1>3, <1>6, <2>1, <2>2 DEF Made
<1>13. Orderly'
  <2> SUFFICES ASSUME ~ overdue PROVE Orderly'
    BY <1>3 DEF Orderly
  <2>1. connection = Nothing /\ open \subseteq {Nothing}
    BY <1>1, <1>3 DEF Orderly
  <2>2. open = {}
    BY <1>1, <2>1, ConnectionsAssumption DEF ClientTypeOK
  <2>3. \A u \in Callers : pc'[u] # "opening"
    BY <1>1, <1>3 DEF Orderly, ClientTypeOK
  <2>4. \A u \in Callers : pc'[u] # "closing"
    <3> SUFFICES ASSUME NEW u \in Callers, pc'[u] = "closing" PROVE FALSE
      OBVIOUS
    <3>1. pc[u] = "closing"
      BY <1>1, <1>3 DEF ClientTypeOK
    <3>2. on[u] = connection \/ on[u] \in closed
      BY <1>1, <3>1 DEF Orderly
    <3> QED BY <1>1, <1>3, <2>1, <3>1, <3>2 DEF InUse, Settled
  <2> QED BY <1>3, <2>2, <2>3, <2>4 DEF Orderly
<1> QED BY <1>2, <1>7, <1>9, <1>10, <1>11, <1>12, <1>13 DEF Regular

LEMMA OpeningFailsKeeps ==
    ASSUME Regular, NEW t \in Callers, OpeningFails(t)
    PROVE  Regular'
<1>1. ClientTypeOK /\ Counted /\ InUse /\ Made /\ Orderly
  BY DEF Regular
<1>2. /\ pc[t] = "opening" /\ failures < MaxFailures /\ failures' = failures + 1
      /\ pc' = [pc EXCEPT ![t] = "done"]
      /\ result' = [result EXCEPT ![t] = Error]
      /\ UNCHANGED <<connection, opening, active, late, open, closed, made, unanswered,
                     answers, on, drops, met, overdue>>
  BY DEF OpeningFails, client, wires
<1>3. ClientTypeOK'
  BY <1>1, <1>2, FaultsAssumption DEF ClientTypeOK
<1>4. Receivers' = Receivers /\ Unopened' \subseteq Unopened
  BY <1>1, <1>2, MovedOutside
<1>5. Counted'
  BY <1>1, <1>2, <1>4, FewerUnopened DEF Counted
<1>6. InUse' /\ Made' /\ Orderly'
  BY <1>1, <1>2 DEF InUse, Made, Orderly, ClientTypeOK
<1> QED BY <1>3, <1>5, <1>6 DEF Regular

LEMMA ReceiveKeeps ==
    ASSUME Regular, NEW t \in Callers, Receive(t)
    PROVE  Regular'
<1>1. ClientTypeOK /\ Counted /\ InUse /\ Made /\ Orderly
  BY DEF Regular
<1>2. /\ pc[t] = "receiving"
      /\ UNCHANGED <<connection, opening, late, closed, made, unanswered, failures,
                     drops, met, overdue>>
  BY DEF Receive
<1>3. on[t] \in Connections
  BY <1>1, <1>2 DEF ClientTypeOK, InUse
<1>4. active \in Int /\ active <= Cardinality(Receivers \union {t})
  <2>1. Receivers \union {t} = Receivers
    BY <1>2 DEF Receivers
  <2> QED BY <1>1, <2>1 DEF Counted, ClientTypeOK
<1>5. \A c \in Connections : c > made => answers[c] = <<>>
  BY <1>1 DEF Made
<1>6. CASE /\ answers[on[t]] # <<>>
           /\ LeaveContext(t, Head(answers[on[t]]), active)
           /\ answers' = [answers EXCEPT ![on[t]] = Tail(@)]
  <2>1. /\ answers[on[t]] \in Seq(Callers) /\ Head(answers[on[t]]) \in Callers
        /\ Tail(answers[on[t]]) \in Seq(Callers)
    BY <1>1, <1>3, <1>6 DEF ClientTypeOK
  <2>2. /\ answers' \in [Connections -> Seq(Callers)]
        /\ \A c \in Connections : c > made => answers'[c] = <<>>
    BY <1>1, <1>3, <1>5, <1>6, <2>1 DEF ClientTypeOK
  <2>3. Rest
    BY <1>1, <1>2, <2>2 DEF Rest, ClientTypeOK
  <2> QED BY <1>2, <1>4, <1>6, <2>1, <2>3, LeavingContextKeeps
<1>7. CASE LeaveContext(t, Error, active) /\ UNCHANGED answers
  <2>1. Rest
    BY <1>1, <1>2, <1>5, <1>7 DEF Rest, ClientTypeOK
  <2> QED BY <1>2, <1>4, <1>7, <2>1, LeavingContextKeeps
<1> QED BY <1>6, <1>7 DEF Receive

LEMMA CloseAndForgetKeeps ==
    ASSUME Regular, NEW t \in Callers, CloseAndForget(t)
    PROVE  Regular'
<1>1. ClientTypeOK /\ Counted /\ InUse /\ Made /\ Orderly
  BY DEF Regular
<1>2. /\ pc[t] = "closing" /\ on[t] \in closed
      /\ connection' = Nothing /\ active' = 0
      /\ pc' = [pc EXCEPT ![t] = "done"]
      /\ on' = [on EXCEPT ![t] = Nothing]
      /\ UNCHANGED <<opening, late, open, closed, made, unanswered, answers, result,
                     failures, drops, met, overdue>>
  BY DEF CloseAndForget, wires
<1>3. ClientTypeOK'
  BY <1>1, <1>2 DEF ClientTypeOK
<1>4. Receivers' = Receivers /\ Unopened' \subseteq Unopened
  BY <1>1, <1>2, MovedOutside
<1>5. Counted'
  <2>1. Cardinality(Receivers) \in Nat
    BY CountsAreNat DEF Receivers
  <2> QED BY <1>1, <1>2, <1>4, <2>1, FewerUnopened DEF Counted
<1>6. InUse'
  BY <1>1, <1>2 DEF InUse, ClientTypeOK
<1>7. Made'
  BY <1>1, <1>2 DEF Made
<1>8. Orderly'
  <2> SUFFICES ASSUME ~ overdue PROVE Orderly'
    BY <1>2 DEF Orderly
  <2>1. on[t] = connection \/ connection = Nothing
    BY <1>1, <1>2 DEF Orderly
  <2>2. open = {}
    BY <1>1, <1>2, <2>1, ConnectionsAssumption DEF Orderly, ClientTypeOK
  <2>3. \A u \in Callers : pc'[u] = "opening" => pc[u] = "opening"
    BY <1>1, <1>2 DEF ClientTypeOK
  <2>4. ASSUME NEW u \in Callers, pc'[u] = "closing"
        PROVE  on'[u] \in closed
    <3>1. pc[u] = "closing" /\ on'[u] = on[u] /\ on[u] # Nothing
      BY <1>1, <1>2, <2>4 DEF ClientTypeOK, InUse
    <3>2. on[u] = connection \/ on[u] \in closed
      BY <1>1, <3>1 DEF Orderly
    <3> QED BY <1>2, <2>1, <3>1, <3>2
  <2> QED BY <1>1, <1>2, <2>2, <2>3, <2>4 DEF Orderly
<1> QED BY <1>3, <1>5, <1>6, <1>7, <1>8 DEF Regular

-----------------------------------------------------------------------------
(* The steps of the service at the other end *)

LEMMA NetworkKeeps ==
    ASSUME Regular, NEW c \in Connections, Answer(c) \/ Drop(c) \/ Ended(c)
    PROVE  Regular'
<1>1. ClientTypeOK /\ Counted /\ InUse /\ Made /\ Orderly
  BY DEF Regular
<1>2. UNCHANGED <<connection, opening, active, pc, late, made, on, result, failures,
                  met, overdue>>
  BY DEF Answer, Drop, Ended, client
<1>3. Receivers' = Receivers /\ Unopened' = Unopened
  BY <1>2 DEF Receivers, Unopened
<1>4. Counted' /\ InUse'
  BY <1>1, <1>2, <1>3 DEF Counted, InUse
<1>5. open' \subseteq open /\ closed \subseteq closed'
  BY DEF Answer, Drop, Ended
<1>6. Orderly'
  BY <1>1, <1>2, <1>5 DEF Orderly
<1>7. CASE Answer(c)
  <2>1. /\ c \in open /\ unanswered[c] # <<>> /\ unanswered[c] \in Seq(Callers)
        /\ answers[c] \in Seq(Callers)
        /\ answers' = [answers EXCEPT ![c] = Append(@, Head(unanswered[c]))]
        /\ unanswered' = [unanswered EXCEPT ![c] = Tail(@)]
        /\ UNCHANGED <<open, closed, drops>>
    BY <1>1, <1>7 DEF Answer, ClientTypeOK
  <2>2. Append(answers[c], Head(unanswered[c])) \in Seq(Callers) /\ Tail(unanswered[c]) \in Seq(Callers)
    BY <2>1
  <2>3. ClientTypeOK'
    BY <1>1, <1>2, <2>1, <2>2 DEF ClientTypeOK
  <2>4. c <= made /\ made \in Nat
    BY <1>1, <2>1 DEF Made, ClientTypeOK
  <2>5. Made'
    BY <1>1, <1>2, <2>1, <2>4 DEF Made, ClientTypeOK, Connections
  <2> QED BY <1>4, <1>6, <2>3, <2>5 DEF Regular
<1>8. CASE Drop(c)
  <2>1. /\ c \in open /\ drops < MaxDrops /\ drops' = drops + 1
        /\ open' = open \ {c} /\ closed' = closed \union {c}
        /\ UNCHANGED <<unanswered, answers>>
    BY <1>8 DEF Drop
  <2>2. ClientTypeOK'
    BY <1>1, <1>2, <2>1, FaultsAssumption DEF ClientTypeOK
  <2>3. Made'
    BY <1>1, <1>2, <2>1 DEF Made
  <2> QED BY <1>4, <1>6, <2>2, <2>3 DEF Regular
<1>9. CASE Ended(c)
  <2>1. /\ c <= made /\ c \notin open \union closed
        /\ closed' = closed \union {c}
        /\ UNCHANGED <<open, unanswered, answers, drops>>
    BY <1>9 DEF Ended
  <2>2. ClientTypeOK'
    BY <1>1, <1>2, <2>1 DEF ClientTypeOK
  <2>3. c \in 1 .. made
    BY <1>1, <2>1 DEF ClientTypeOK, Connections
  <2>4. Made'
    BY <1>1, <1>2, <2>1, <2>3 DEF Made
  <2> QED BY <1>4, <1>6, <2>2, <2>4 DEF Regular
<1> QED BY <1>7, <1>8, <1>9

-----------------------------------------------------------------------------
(* Tasks that meet no other *)

LEMMA NobodyElse ==
    ASSUME ClientTypeOK, Undisturbed, NEW t \in Callers, t \in Busy
    PROVE  /\ t \notin met => Busy = {t}
           /\ t \in met => \A u \in Callers \ met : u \notin Busy
<1>1. \A u \in Callers \ met : u \in Busy => Busy \subseteq {u}
  BY DEF Undisturbed
<1> QED BY <1>1

LEMMA MoreFailures ==
    ASSUME NEW a \in Nat, NEW b \in Nat, NEW c \in Nat, NEW d \in Nat,
           a <= c, b <= d, a + b > 0
    PROVE  c + d > 0
OBVIOUS

\* Nothing changes for those who are done, or have not begun.
LEMMA OthersKeep ==
    ASSUME ClientTypeOK, ClientTypeOK', Undisturbed, failures' >= failures, drops' >= drops,
           NEW u \in Callers \ met, u \notin Busy,
           pc'[u] = pc[u], result'[u] = result[u]
    PROVE  /\ u \notin Busy'
           /\ pc'[u] # "receiving"
           /\ pc'[u] \in {"closing", "done"} => Served(u)'
<1>1. pc[u] \in {"idle", "done"}
  BY DEF Busy
<1>2. pc[u] = "done" => result[u] = u \/ (result[u] = Error /\ failures + drops > 0)
  BY DEF Undisturbed, Served
<1>3. failures + drops > 0 => failures' + drops' > 0
  <2>1. /\ failures \in Nat /\ drops \in Nat
        /\ failures' \in Nat /\ drops' \in Nat
    BY DEF ClientTypeOK
  <2>2. failures <= failures' /\ drops <= drops'
    BY <2>1
  <2> QED BY <2>1, <2>2, MoreFailures
<1> QED BY <1>1, <1>2, <1>3 DEF Busy, Served

\* A step of a task that is under way: it has to be seen to only if it is alone.
LEMMA StepOfOne ==
    ASSUME ClientTypeOK, ClientTypeOK', Undisturbed, NEW t \in Callers, t \in Busy, met' = met,
           failures' >= failures, drops' >= drops,
           \A u \in Callers : u # t => pc'[u] = pc[u] /\ result'[u] = result[u],
           t \notin met =>
             /\ pc'[t] = "receiving" =>
                  /\ connection' = on'[t]
                  /\ \/ unanswered'[on'[t]] = <<t>> /\ answers'[on'[t]] = <<>>
                     \/ unanswered'[on'[t]] = <<>> /\ answers'[on'[t]] = <<t>>
                  /\ on'[t] \in open' \/ drops' > 0
             /\ pc'[t] \in {"closing", "done"} => Served(t)'
    PROVE  Undisturbed'
<1> SUFFICES ASSUME NEW u \in Callers \ met
             PROVE  /\ u \in Busy' => Busy' \subseteq {u}
                    /\ pc'[u] = "receiving" =>
                         /\ connection' = on'[u]
                         /\ \/ unanswered'[on'[u]] = <<u>> /\ answers'[on'[u]] = <<>>
                            \/ unanswered'[on'[u]] = <<>> /\ answers'[on'[u]] = <<u>>
                         /\ on'[u] \in open' \/ drops' > 0
                    /\ pc'[u] \in {"closing", "done"} => Served(u)'
  BY DEF Undisturbed
<1>1. CASE u = t
  <2>1. Busy = {t}
    BY <1>1, NobodyElse
  <2>2. Busy' \subseteq {t}
    BY <2>1 DEF Busy
  <2> QED BY <1>1, <2>2
<1>2. CASE u # t
  <2>1. u \notin Busy
    BY <1>2, NobodyElse
  <2> QED BY <1>2, <2>1, OthersKeep
<1> QED BY <1>1, <1>2

\* A task that is alone finds no connection when it goes on.
LEMMA AloneHasNone ==
    ASSUME Regular, NEW t \in Callers, Busy \subseteq {t}, pc[t] \in {"idle", "waiting"}
    PROVE  connection = Nothing
BY DEF Regular, InUse, Busy

LEMMA ProceedWithNone ==
    ASSUME NEW t, Proceed(t), connection = Nothing
    PROVE  pc' = [pc EXCEPT ![t] = "opening"] /\ result' = result
BY DEF Proceed

\* Whatever a task does to go on, it does to itself.
LEMMA ProceedIsItsOwn ==
    ASSUME ClientTypeOK, NEW t \in Callers, Proceed(t)
    PROVE  \A u \in Callers : u # t => pc'[u] = pc[u] /\ result'[u] = result[u]
BY DEF Proceed, SendAndReceive, Receives, LeaveContext, ClientTypeOK

LEMMA EnterAlone ==
    ASSUME Regular, Undisturbed, Regular', NEW t \in Callers, Enter(t)
    PROVE  Undisturbed'
<1>1. ClientTypeOK /\ ClientTypeOK'
  BY DEF Regular
<1>2. /\ pc[t] = "idle" /\ UNCHANGED <<failures, drops>>
      /\ met' = IF Busy = {} THEN met ELSE met \union Busy \union {t}
  BY DEF Enter
<1>3. \A u \in Callers : u # t => pc'[u] = pc[u] /\ result'[u] = result[u]
  BY <1>1, ProceedIsItsOwn DEF Enter, ClientTypeOK
<1>4. failures' >= failures /\ drops' >= drops
  BY <1>1, <1>2 DEF ClientTypeOK
<1>5. CASE Busy = {}
  <2>1. connection = Nothing
    BY <1>2, <1>5, AloneHasNone
  <2>2. pc'[t] \in {"waiting", "opening"}
    BY <1>1, <2>1, ProceedWithNone DEF Enter, ClientTypeOK
  <2>3. Busy' \subseteq {t}
    BY <1>3, <1>5 DEF Busy
  <2>4. \A u \in Callers \ met : u # t =>
           /\ u \notin Busy' /\ pc'[u] # "receiving"
           /\ pc'[u] \in {"closing", "done"} => Served(u)'
    BY <1>1, <1>3, <1>4, <1>5, OthersKeep
  <2>5. met' = met
    BY <1>2, <1>5
  <2> QED BY <2>2, <2>3, <2>4, <2>5 DEF Undisturbed
<1>6. CASE Busy # {}
  <2>1. met' = met \union Busy \union {t}
    BY <1>2, <1>6
  <2>2. \A u \in Callers \ met' :
           /\ u \notin Busy' /\ pc'[u] # "receiving"
           /\ pc'[u] \in {"closing", "done"} => Served(u)'
    <3> SUFFICES ASSUME NEW u \in Callers \ met'
                 PROVE  /\ u \notin Busy' /\ pc'[u] # "receiving"
                        /\ pc'[u] \in {"closing", "done"} => Served(u)'
      OBVIOUS
    <3>1. u \notin met /\ u \notin Busy /\ u # t
      BY <2>1
    <3> QED BY <1>1, <1>3, <1>4, <3>1, OthersKeep
  <2> QED BY <2>2 DEF Undisturbed
<1> QED BY <1>5, <1>6

LEMMA PollAlone ==
    ASSUME Regular, Undisturbed, Regular', NEW t \in Callers, Poll(t)
    PROVE  Undisturbed'
<1>1. ClientTypeOK /\ ClientTypeOK'
  BY DEF Regular
<1>2. pc[t] = "waiting" /\ Proceed(t) /\ UNCHANGED <<failures, drops, met>>
  BY DEF Poll
<1>3. t \in Busy
  BY <1>2 DEF Busy
<1>4. \A u \in Callers : u # t => pc'[u] = pc[u] /\ result'[u] = result[u]
  BY <1>1, <1>2, ProceedIsItsOwn
<1>5. failures' >= failures /\ drops' >= drops
  BY <1>1, <1>2 DEF ClientTypeOK
<1>6. t \notin met => pc'[t] = "opening"
  <2> SUFFICES ASSUME t \notin met PROVE pc'[t] = "opening"
    OBVIOUS
  <2>1. Busy = {t}
    BY <1>1, <1>3, NobodyElse
  <2>2. connection = Nothing
    BY <1>2, <2>1, AloneHasNone
  <2> QED BY <1>1, <1>2, <2>2, ProceedWithNone DEF ClientTypeOK
<1> QED BY <1>1, <1>2, <1>3, <1>4, <1>5, <1>6, StepOfOne

LEMMA OpenedAlone ==
    ASSUME Regular, Undisturbed, Regular', NEW t \in Callers, Opened(t)
    PROVE  Undisturbed'
<1>1. ClientTypeOK /\ ClientTypeOK' /\ Made /\ made + 1 \in Connections
  BY OpenedKeeps DEF Regular
<1>2. PICK c \in Connections : c = made + 1
  BY <1>1
<1>3. /\ pc[t] = "opening" /\ connection' = c /\ open' = open \union {c}
      /\ unanswered' = [unanswered EXCEPT ![c] = <<t>>]
      /\ pc' = [pc EXCEPT ![t] = "receiving"]
      /\ on' = [on EXCEPT ![t] = c]
      /\ UNCHANGED <<answers, result, failures, drops, met>>
  BY <1>2 DEF Opened
<1>4. t \in Busy
  BY <1>3 DEF Busy
<1>5. failures' >= failures /\ drops' >= drops
  BY <1>1, <1>3 DEF ClientTypeOK
<1>6. c > made
  BY <1>1, <1>2 DEF ClientTypeOK
<1>7. answers[c] = <<>>
  BY <1>1, <1>6 DEF Made
<1>8. \A u \in Callers : u # t => pc'[u] = pc[u] /\ result'[u] = result[u]
  BY <1>1, <1>3 DEF ClientTypeOK
<1>9. /\ pc'[t] = "receiving" /\ on'[t] = c
      /\ unanswered'[c] = <<t>> /\ answers'[c] = <<>>
  BY <1>1, <1>3, <1>7 DEF ClientTypeOK
<1> QED BY <1>1, <1>3, <1>4, <1>5, <1>8, <1>9, StepOfOne

LEMMA OpeningFailsAlone ==
    ASSUME Regular, Undisturbed, Regular', NEW t \in Callers, OpeningFails(t)
    PROVE  Undisturbed'
<1>1. ClientTypeOK /\ ClientTypeOK'
  BY DEF Regular
<1>2. /\ pc[t] = "opening" /\ failures' = failures + 1
      /\ pc' = [pc EXCEPT ![t] = "done"]
      /\ result' = [result EXCEPT ![t] = Error]
      /\ UNCHANGED <<drops, met>>
  BY DEF OpeningFails
<1>3. t \in Busy
  BY <1>2 DEF Busy
<1>4. failures' >= failures /\ drops' >= drops /\ failures' + drops' > 0
  BY <1>1, <1>2 DEF ClientTypeOK
<1>5. /\ pc'[t] = "done" /\ result'[t] = Error
      /\ \A u \in Callers : u # t => pc'[u] = pc[u] /\ result'[u] = result[u]
  BY <1>1, <1>2 DEF ClientTypeOK
<1>6. Served(t)'
  BY <1>4, <1>5 DEF Served
<1> QED BY <1>1, <1>2, <1>3, <1>4, <1>5, <1>6, StepOfOne

LEMMA ReceiveAlone ==
    ASSUME Regular, Undisturbed, Regular', NEW t \in Callers, Receive(t)
    PROVE  Undisturbed'
<1>1. ClientTypeOK /\ ClientTypeOK' /\ InUse
  BY DEF Regular
<1>2. pc[t] = "receiving" /\ UNCHANGED <<failures, drops, met>>
  BY DEF Receive
<1>3. t \in Busy
  BY <1>2 DEF Busy
<1>4. on[t] # Nothing /\ on[t] \in Connections
  BY <1>1, <1>2 DEF InUse, ClientTypeOK
<1>5. PICK outcome \in Callers \union {Error} :
        /\ LeaveContext(t, outcome, active)
        /\ \/ answers[on[t]] # <<>> /\ outcome = Head(answers[on[t]])
           \/ outcome = Error /\ on[t] \in closed
  <2>1. answers[on[t]] \in Seq(Callers)
    BY <1>1, <1>4 DEF ClientTypeOK
  <2> QED BY <2>1 DEF Receive
<1>6. active \in Int
  BY <1>1 DEF ClientTypeOK
<1>7. /\ result'[t] = outcome \/ connection = Nothing
      /\ \A u \in Callers : u # t => pc'[u] = pc[u] /\ result'[u] = result[u]
      /\ \E there \in {"closing", "done"} : pc' = [pc EXCEPT ![t] = there]
  BY <1>1, <1>5, <1>6, LeaveHas
<1>8. pc'[t] # "receiving"
  BY <1>1, <1>7 DEF ClientTypeOK
<1>9. failures' >= failures /\ drops' >= drops
  BY <1>1, <1>2 DEF ClientTypeOK
<1>10. t \notin met => Served(t)'
  <2> SUFFICES ASSUME t \notin met PROVE Served(t)'
    OBVIOUS
  <2>1. /\ connection = on[t]
        /\ answers[on[t]] = <<>> \/ answers[on[t]] = <<t>>
        /\ on[t] \in open \/ drops > 0
    BY <1>2 DEF Undisturbed
  <2>2. result'[t] = outcome
    BY <1>4, <1>7, <2>1
  <2>3. CASE answers[on[t]] # <<>> /\ outcome = Head(answers[on[t]])
    <3>1. outcome = t
      BY <2>1, <2>3
    <3> QED BY <2>2, <3>1 DEF Served
  <2>4. CASE outcome = Error /\ on[t] \in closed
    <3>1. drops > 0
      BY <1>1, <2>1, <2>4 DEF ClientTypeOK
    <3>2. failures' + drops' > 0
      BY <1>1, <1>2, <3>1 DEF ClientTypeOK
    <3> QED BY <2>2, <2>4, <3>2 DEF Served
  <2> QED BY <1>5, <2>3, <2>4
<1> QED BY <1>1, <1>2, <1>3, <1>7, <1>8, <1>9, <1>10, StepOfOne

LEMMA CloseAlone ==
    ASSUME Regular, Undisturbed, Regular', NEW t \in Callers, CloseAndForget(t)
    PROVE  Undisturbed'
<1>1. ClientTypeOK /\ ClientTypeOK'
  BY DEF Regular
<1>2. /\ pc[t] = "closing" /\ pc' = [pc EXCEPT ![t] = "done"]
      /\ UNCHANGED <<result, failures, drops, met>>
  BY DEF CloseAndForget
<1>3. t \in Busy
  BY <1>2 DEF Busy
<1>4. failures' >= failures /\ drops' >= drops
  BY <1>1, <1>2 DEF ClientTypeOK
<1>5. /\ pc'[t] = "done"
      /\ \A u \in Callers : u # t => pc'[u] = pc[u] /\ result'[u] = result[u]
  BY <1>1, <1>2 DEF ClientTypeOK
<1>6. t \notin met => Served(t)'
  BY <1>2 DEF Undisturbed, Served
<1>7. pc'[t] # "receiving"
  BY <1>5
<1>8. met' = met
  BY <1>2
<1> QED BY <1>1, <1>3, <1>4, <1>5, <1>6, <1>7, <1>8, StepOfOne

LEMMA NetworkAlone ==
    ASSUME Regular, Undisturbed, Regular', NEW c \in Connections,
           Answer(c) \/ Drop(c) \/ Ended(c)
    PROVE  Undisturbed'
<1>1. ClientTypeOK /\ ClientTypeOK' /\ InUse
  BY DEF Regular
<1>2. UNCHANGED <<connection, pc, on, result, failures, met>>
  BY DEF Answer, Drop, Ended, client
<1>3. drops' >= drops /\ \A e \in open : e \in open' \/ drops' > 0
  <2>1. drops \in Nat
    BY <1>1 DEF ClientTypeOK
  <2>2. CASE Answer(c)
    BY <2>1, <2>2 DEF Answer
  <2>3. CASE Drop(c)
    BY <2>1, <2>3 DEF Drop
  <2>4. CASE Ended(c)
    BY <2>1, <2>4 DEF Ended
  <2> QED BY <2>2, <2>3, <2>4
<1>4. Busy' = Busy
  BY <1>2 DEF Busy
<1>5. drops \in Nat /\ drops' \in Nat /\ failures \in Nat
  BY <1>1 DEF ClientTypeOK
<1> SUFFICES ASSUME NEW t \in Callers \ met
             PROVE  /\ t \in Busy' => Busy' \subseteq {t}
                    /\ pc'[t] = "receiving" =>
                         /\ connection' = on'[t]
                         /\ \/ unanswered'[on'[t]] = <<t>> /\ answers'[on'[t]] = <<>>
                            \/ unanswered'[on'[t]] = <<>> /\ answers'[on'[t]] = <<t>>
                         /\ on'[t] \in open' \/ drops' > 0
                    /\ pc'[t] \in {"closing", "done"} => Served(t)'
  BY <1>2 DEF Undisturbed
<1>6. t \in Busy' => Busy' \subseteq {t}
  BY <1>4 DEF Undisturbed
<1>7. pc'[t] \in {"closing", "done"} => Served(t)'
  <2>1. failures + drops > 0 => failures' + drops' > 0
    <3>1. failures' = failures /\ drops <= drops' /\ failures <= failures'
      BY <1>2, <1>3, <1>5
    <3> QED BY <1>5, <3>1, MoreFailures
  <2>2. pc[t] \in {"closing", "done"} =>
          result[t] = t \/ (result[t] = Error /\ failures + drops > 0)
    BY DEF Undisturbed, Served
  <2> QED BY <1>2, <2>1, <2>2 DEF Served
<1>8. ASSUME pc'[t] = "receiving"
      PROVE  /\ connection' = on'[t]
             /\ \/ unanswered'[on'[t]] = <<t>> /\ answers'[on'[t]] = <<>>
                \/ unanswered'[on'[t]] = <<>> /\ answers'[on'[t]] = <<t>>
             /\ on'[t] \in open' \/ drops' > 0
  <2>1. PICK e \in Connections : e = on[t]
    BY <1>1, <1>2, <1>8 DEF InUse, ClientTypeOK
  <2>2. /\ connection = e
        /\ \/ unanswered[e] = <<t>> /\ answers[e] = <<>>
           \/ unanswered[e] = <<>> /\ answers[e] = <<t>>
        /\ e \in open \/ drops > 0
    BY <1>2, <1>8, <2>1 DEF Undisturbed
  <2>3. e \in open' \/ drops' > 0
    BY <1>3, <1>5, <2>2
  <2>4. CASE Answer(c) /\ c = e
    <3>1. /\ unanswered[e] = <<t>> /\ answers[e] = <<>>
          /\ answers'[e] = Append(answers[e], Head(unanswered[e]))
          /\ unanswered'[e] = Tail(unanswered[e])
      BY <1>1, <2>2, <2>4 DEF Answer, ClientTypeOK
    <3>2. unanswered'[e] = <<>> /\ answers'[e] = <<t>>
      BY <3>1
    <3> QED BY <1>2, <2>1, <2>2, <2>3, <3>2
  <2>5. CASE ~ (Answer(c) /\ c = e)
    <3>1. unanswered'[e] = unanswered[e] /\ answers'[e] = answers[e]
      BY <1>1, <2>5 DEF Answer, Drop, Ended, ClientTypeOK
    <3> QED BY <1>2, <2>1, <2>2, <2>3, <3>1
  <2> QED BY <2>4, <2>5
<1> QED BY <1>6, <1>7, <1>8

-----------------------------------------------------------------------------
(* Every step *)

LEMMA InitIInv == ClientInit => ClientIInv
<1> SUFFICES ASSUME ClientInit PROVE ClientIInv
  OBVIOUS
<1>1. Cardinality(Callers) \in Nat
  BY CountsAreNat
<1>2. ClientTypeOK
  <2>1. <<>> \in Seq(Callers)
    OBVIOUS
  <2>2. failures \in 0 .. MaxFailures /\ drops \in 0 .. MaxDrops
    BY FaultsAssumption DEF ClientInit
  <2>3. /\ made \in 0 .. Cardinality(Callers) /\ active \in Int
        /\ unanswered \in [Connections -> Seq(Callers)]
        /\ answers \in [Connections -> Seq(Callers)]
    BY <1>1, <2>1 DEF ClientInit
  <2> QED BY <2>2, <2>3 DEF ClientInit, ClientTypeOK
<1>3. Receivers = {} /\ Unopened = Callers
  BY DEF ClientInit, Receivers, Unopened
<1>4. Counted
  BY <1>1, <1>3, FS_EmptySet DEF ClientInit, Counted
<1>5. InUse /\ Made /\ Orderly
  BY DEF ClientInit, InUse, Made, Orderly
<1>6. Undisturbed
  BY DEF ClientInit, Undisturbed, Busy
<1> QED BY <1>2, <1>4, <1>5, <1>6 DEF ClientIInv

LEMMA NextKeeps == ClientIInv /\ [ClientNext]_clientVars => ClientIInv'
<1> SUFFICES ASSUME ClientIInv, [ClientNext]_clientVars PROVE ClientIInv'
  OBVIOUS
<1>1. Regular /\ Undisturbed
  BY DEF ClientIInv, Regular
<1>2. Regular' /\ Undisturbed' => ClientIInv'
  BY DEF ClientIInv, Regular
<1>3. CASE UNCHANGED clientVars
  <2>1. UNCHANGED <<connection, opening, active, pc, late, open, closed, made,
                    unanswered, answers, on, result, failures, drops, met, overdue>>
    BY <1>3 DEF clientVars, client, wires
  <2> QED BY <2>1 DEF ClientIInv, ClientTypeOK, Counted, Receivers, Unopened, InUse, Made,
                      Orderly, Undisturbed, Busy, Served
<1>4. ASSUME NEW t \in Callers, Enter(t) PROVE ClientIInv'
  BY <1>1, <1>2, <1>4, EnterKeeps, EnterAlone
<1>5. ASSUME NEW t \in Callers, Poll(t) PROVE ClientIInv'
  BY <1>1, <1>2, <1>5, PollKeeps, PollAlone
<1>6. ASSUME NEW t \in Callers, Opened(t) PROVE ClientIInv'
  BY <1>1, <1>2, <1>6, OpenedKeeps, OpenedAlone
<1>7. ASSUME NEW t \in Callers, OpeningFails(t) PROVE ClientIInv'
  BY <1>1, <1>2, <1>7, OpeningFailsKeeps, OpeningFailsAlone
<1>8. ASSUME NEW t \in Callers, Receive(t) PROVE ClientIInv'
  BY <1>1, <1>2, <1>8, ReceiveKeeps, ReceiveAlone
<1>9. ASSUME NEW t \in Callers, CloseAndForget(t) PROVE ClientIInv'
  BY <1>1, <1>2, <1>9, CloseAndForgetKeeps, CloseAlone
<1>10. ASSUME NEW c \in Connections, Answer(c) \/ Drop(c) \/ Ended(c) PROVE ClientIInv'
  BY <1>1, <1>2, <1>10, NetworkKeeps, NetworkAlone
<1> QED
  BY <1>3, <1>4, <1>5, <1>6, <1>7, <1>8, <1>9, <1>10 DEF ClientNext, Step

LEMMA Invariance == ClientSpec => []ClientIInv
BY InitIInv, NextKeeps, PTL DEF ClientSpec

-----------------------------------------------------------------------------
(* The theorems *)

\* For any number of tasks: what is open is the client's own connection, and
\* somebody uses it, unless a second task began to open one because the first
\* took too long; and once all exchanges are over, however they ended, the
\* client has no connection left (WebSocketClient, __aenter__ and __aexit__).
THEOREM ConnectionsDoNotLeak == ClientSpec => []NoConnectionLeaks
<1>1. ClientIInv => NoConnectionLeaks
  <2> SUFFICES ASSUME ClientIInv PROVE NoConnectionLeaks
    OBVIOUS
  <2>1. ClientTypeOK /\ InUse /\ Orderly
    BY DEF ClientIInv
  <2>2. Busy = {} => connection = Nothing
    BY <2>1 DEF InUse, Busy
  <2>3. open \subseteq Connections
    BY <2>1 DEF ClientTypeOK
  <2>4. overdue \/ open \subseteq (IF Busy = {} THEN {} ELSE {connection})
    BY <2>1, <2>2, <2>3, ConnectionsAssumption DEF Orderly
  <2> QED BY <2>1, <2>2, <2>4 DEF NoConnectionLeaks
<1> QED BY <1>1, Invariance, PTL

\* For any number of tasks: one whose exchange met no other task's gets the
\* reply to its own request if the network did its part, whatever the counter
\* and the flag have been left at by others (async_send).
THEOREM WhoIsAloneIsServed == ClientSpec => []AloneIsServed
<1>1. ClientIInv => AloneIsServed
  BY DEF ClientIInv, Undisturbed, Served, AloneIsServed
<1> QED BY <1>1, Invariance, PTL
=============================================================================
