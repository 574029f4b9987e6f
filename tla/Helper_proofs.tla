--------------------------- MODULE Helper_proofs ---------------------------
(***************************************************************************)
(* While git lives, the helper runs the batches git asked for, and each of *)
(* them whole: for every set of dialogues of well-formed requests, with    *)
(* lines the scanner cannot read and an engine that fails at any point.    *)
(***************************************************************************)
EXTENDS Helper, SequenceTheorems, TLAPS

Oversized == [kind |-> "oversized"]
Names == {"verbosity", "progress", "dry-run", "force"}
Runs == [lines : Seq(Lines), options : SUBSET Names]

-----------------------------------------------------------------------------
(* The inductive invariant: git and the helper are at one request *)

\* git has written k lines of request j of dialogue d.
Written(d, j, k) ==
    /\ requests \in Seq(Seq(Lines))
    /\ git = "send" =>
          /\ k < Len(d[j]) /\ Len(requests) = Len(d) - j + 1
          /\ requests[1] = SubSeq(d[j], k + 1, Len(d[j]))
          /\ \A i \in 2..Len(requests) : requests[i] = d[i + j - 1]
    /\ git = "wait" =>
          /\ k = Len(d[j]) /\ j < Len(d) /\ Len(requests) = Len(d) - j
          /\ \A i \in 1..Len(requests) : requests[i] = d[i + j]
    /\ git = "end" => k = Len(d[j]) /\ requests = <<>>

\* The helper has read m of them, and the others are on their way.
Piped(d, j, k, m) ==
    /\ pipe \in Seq(Lines \cup {Oversized}) /\ Len(pipe) = k - m
    /\ \A i \in 1..Len(pipe) : pipe[i] \in {d[j][i + m], Oversized}

\* What the helper has made of them.
Heard(d, j, m) ==
    /\ helper \in {"main", "batch", "run", "exited"}
    /\ helper = "main" => m \in {0, Len(d[j])}
    /\ helper = "batch" => m \in 1..(Len(d[j]) - 1) /\ batch = SubSeq(d[j], 1, m)
    /\ helper = "run" => m = Len(d[j]) /\ m > 1 /\ batch = Front(d[j])
    /\ buffered = 0 /\ flushed \in {0, 1}
    /\ flushed = 1 => helper = "main" /\ m = Len(d[j])

At(d, j, k, m) == Written(d, j, k) /\ Piped(d, j, k, m) /\ Heard(d, j, m)

\* What was run were whole batches.
RanWhole ==
    /\ ran \in Seq(Runs)
    /\ \A i \in 1..Len(ran) :
          \E d \in Dialogues : \E j \in 1..Len(d) : Front(d[j]) = ran[i].lines

HelperInv ==
    open => /\ git \in {"send", "wait", "end"} /\ options \in SUBSET Names
            /\ RanWhole
            /\ \E d \in Dialogues : \E j \in 1..Len(d) :
               \E k \in 0..Len(d[j]) : \E m \in 0..k : At(d, j, k, m)

-----------------------------------------------------------------------------
(* Sequences *)

\* What is left of a sequence after one more of its elements.
LEMMA RestOfRest ==
    ASSUME NEW S, NEW s \in Seq(S), NEW k \in Nat, k < Len(s)
    PROVE  LET r == SubSeq(s, k + 1, Len(s))
           IN  /\ r \in Seq(S) /\ Len(r) = Len(s) - k /\ Head(r) = s[k + 1]
               /\ Tail(r) = SubSeq(s, k + 2, Len(s))
  <1> DEFINE r == SubSeq(s, k + 1, Len(s))
  <1>1. r \in Seq(S) /\ Len(r) = Len(s) - k
    BY SubSeqProperties, LenProperties
  <1>2. Head(r) = s[k + 1] /\ Tail(r) = SubSeq(s, k + 2, Len(s))
    BY HeadTailOfSubSeq, LenProperties
  <1>3. QED BY <1>1, <1>2

\* A beginning of a sequence and one more of its elements.
LEMMA AppendNext ==
    ASSUME NEW S, NEW s \in Seq(S), NEW m \in Nat, m < Len(s)
    PROVE  Append(SubSeq(s, 1, m), s[m + 1]) = SubSeq(s, 1, m + 1)
  <1>1. SubSeq(s, 1, m) \in Seq(S) /\ Len(SubSeq(s, 1, m)) = m
    BY SubSeqProperties, LenProperties
  <1>2. s[m + 1] \in S
    BY ElementOfSeq, LenProperties
  <1>3. \A i \in 1..m : SubSeq(s, 1, m)[i] = s[i]
    BY SubSeqProperties, LenProperties
  <1> DEFINE t == Append(SubSeq(s, 1, m), s[m + 1])
  <1>4. t \in Seq(S) /\ Len(t) = m + 1
    BY <1>1, <1>2, AppendProperties
  <1>5. \A i \in 1..(m + 1) : t[i] = s[i]
    BY <1>1, <1>2, <1>3, AppendProperties
  <1>6. /\ SubSeq(s, 1, m + 1) \in Seq(S) /\ Len(SubSeq(s, 1, m + 1)) = m + 1
        /\ \A i \in 1..(m + 1) : SubSeq(s, 1, m + 1)[i] = s[i]
    BY SubSeqProperties, LenProperties
  <1>7. QED BY <1>4, <1>5, <1>6, SeqEqual

-----------------------------------------------------------------------------
(* The steps *)

\* The types of a dialogue, a request and a line.
LEMMA DialogueTypes ==
    ASSUME NEW d \in Dialogues
    PROVE  /\ d \in Seq(Seq(Lines)) /\ Len(d) \in Nat \ {0} /\ DOMAIN d = 1..Len(d)
           /\ \A j \in 1..Len(d) :
                 /\ d[j] \in Seq(Lines) /\ IsRequest(d[j]) /\ Len(d[j]) \in Nat \ {0}
                 /\ \A i \in 1..Len(d[j]) : d[j][i] \in Lines
  <1>1. d \in Seq(Seq(Lines)) /\ d # <<>> /\ \A j \in DOMAIN d : IsRequest(d[j])
    BY DialogueAssumption
  <1>2. Len(d) \in Nat \ {0} /\ DOMAIN d = 1..Len(d)
    BY <1>1, EmptySeq, LenProperties
  <1>3. ASSUME NEW j \in 1..Len(d)
        PROVE  /\ d[j] \in Seq(Lines) /\ IsRequest(d[j]) /\ Len(d[j]) \in Nat \ {0}
               /\ \A i \in 1..Len(d[j]) : d[j][i] \in Lines
    <2>1. d[j] \in Seq(Lines) /\ IsRequest(d[j])
      BY <1>1, <1>2, ElementOfSeq
    <2>2. Len(d[j]) \in Nat \ {0}
      BY <2>1, LenProperties DEF IsRequest
    <2>3. QED BY <2>1, <2>2, ElementOfSeq
  <1>4. QED BY <1>1, <1>2, <1>3

\* git writes one more line, readable or not.
LEMMA WritesKeep ==
    ASSUME NEW d \in Dialogues, NEW j \in 1..Len(d), NEW k \in 0..Len(d[j]),
           NEW m \in 0..k, At(d, j, k, m), GitWrites
    PROVE  git' \in {"send", "wait", "end"} /\ At(d, j, k + 1, m)' /\ k + 1 \in 0..Len(d[j])
  <1> DEFINE request == Head(requests)
  <1>1. /\ d[j] \in Seq(Lines) /\ Len(d[j]) \in Nat \ {0}
        /\ \A i \in 1..Len(d[j]) : d[j][i] \in Lines
    BY DialogueTypes
  <1>2. /\ git = "send" /\ requests # <<>> /\ requests \in Seq(Seq(Lines))
        /\ k < Len(d[j]) /\ Len(requests) = Len(d) - j + 1
        /\ requests[1] = SubSeq(d[j], k + 1, Len(d[j]))
        /\ \A i \in 2..Len(requests) : requests[i] = d[i + j - 1]
    BY DEF At, Written, GitWrites
  <1>3. /\ request \in Seq(Lines) /\ Len(request) = Len(d[j]) - k
        /\ Head(request) = d[j][k + 1]
        /\ Tail(request) = SubSeq(d[j], k + 2, Len(d[j]))
    <2>1. request = SubSeq(d[j], k + 1, Len(d[j])) /\ k \in Nat /\ k < Len(d[j])
      BY <1>2
    <2>2. d[j] \in Seq(Lines)
      BY <1>1
    <2>3. QED BY <2>1, <2>2, RestOfRest
  <1>4. /\ Tail(requests) \in Seq(Seq(Lines)) /\ Len(Tail(requests)) = Len(requests) - 1
        /\ \A i \in 1..Len(Tail(requests)) : Tail(requests)[i] = requests[i + 1]
    BY <1>2, HeadTailProperties
  <1>5. /\ pipe' \in Seq(Lines \cup {Oversized}) /\ Len(pipe') = k + 1 - m
        /\ \A i \in 1..Len(pipe') : pipe'[i] \in {d[j][i + m], Oversized}
    <2>1. PICK x \in {d[j][k + 1], Oversized} : pipe' = Append(pipe, x)
      BY <1>3 DEF GitWrites, Oversized
    <2>2. x \in Lines \cup {Oversized}
      <3>1. k + 1 \in 1..Len(d[j])
        BY <1>1, <1>2
      <3>2. d[j][k + 1] \in Lines
        BY <1>1, <3>1
      <3>3. QED BY <2>1, <3>2
    <2>3. /\ pipe \in Seq(Lines \cup {Oversized}) /\ Len(pipe) = k - m
          /\ \A i \in 1..Len(pipe) : pipe[i] \in {d[j][i + m], Oversized}
      BY DEF At, Piped
    <2>4. /\ pipe' \in Seq(Lines \cup {Oversized}) /\ Len(pipe') = k - m + 1
          /\ \A i \in 1..(k - m) : pipe'[i] = pipe[i]
          /\ pipe'[k - m + 1] = x
      <3> DEFINE L == Lines \cup {Oversized}
      <3>1. x \in L /\ pipe \in Seq(L)
        BY <2>2, <2>3
      <3>2. /\ Append(pipe, x) \in Seq(L) /\ Len(Append(pipe, x)) = Len(pipe) + 1
            /\ \A i \in 1..Len(pipe) : Append(pipe, x)[i] = pipe[i]
            /\ Append(pipe, x)[Len(pipe) + 1] = x
        <4> HIDE DEF L
        <4>1. QED BY <3>1, AppendProperties
      <3>3. QED BY <2>1, <2>3, <3>2
    <2>5. ASSUME NEW i \in 1..(k - m + 1) PROVE pipe'[i] \in {d[j][i + m], Oversized}
      <3>1. CASE i = k - m + 1
        <4>1. i + m = k + 1
          BY <3>1
        <4>2. QED BY <2>1, <2>4, <3>1, <4>1
      <3>2. CASE i \in 1..(k - m)
        BY <2>3, <2>4, <3>2
      <3>3. QED BY <3>1, <3>2
    <2>6. QED BY <2>4, <2>5
  <1>6. Written(d, j, k + 1)' /\ git' \in {"send", "wait", "end"}
    <2> DEFINE left == Len(request)
    <2>0. /\ left = Len(d[j]) - k
          /\ requests' = IF left = 1 THEN Tail(requests) ELSE <<Tail(request)>> \o Tail(requests)
          /\ left > 1 => git' = "send"
          /\ ~(left > 1) => git' = IF Len(requests) > 1 THEN "wait" ELSE "end"
      <3>1. left = Len(d[j]) - k
        BY <1>3
      <3>2. /\ requests' = IF left = 1 THEN Tail(requests) ELSE <<Tail(request)>> \o Tail(requests)
            /\ git' = CASE left > 1 -> "send"
                        [] left = 1 /\ Len(requests) > 1 -> "wait"
                        [] OTHER -> "end"
        BY DEF GitWrites
      <3> HIDE DEF left
      <3>3. left \in Nat \ {0} /\ Len(requests) \in Nat
        BY <1>1, <1>2, <3>1, LenProperties
      <3>4. QED BY <3>1, <3>2, <3>3
    <2> HIDE DEF left
    <2>1. CASE k + 1 < Len(d[j])
      <3>1. git' = "send" /\ requests' = <<Tail(request)>> \o Tail(requests)
        BY <2>0, <2>1, <1>1
      <3>2. Tail(request) \in Seq(Lines)
        BY <1>1, <1>3, <2>1, HeadTailProperties, EmptySeq
      <3>3. <<Tail(request)>> \in Seq(Seq(Lines)) /\ Len(<<Tail(request)>>) = 1
            /\ <<Tail(request)>>[1] = Tail(request)
        BY <3>2
      <3>4. /\ requests' \in Seq(Seq(Lines)) /\ Len(requests') = Len(requests)
            /\ requests'[1] = Tail(request)
            /\ \A i \in 2..Len(requests) : requests'[i] = requests[i]
        BY <1>2, <1>4, <3>1, <3>3, ConcatProperties
      <3>5. k + 1 + 1 = k + 2 /\ Tail(request) = SubSeq(d[j], k + 2, Len(d[j]))
        BY <1>3
      <3>6. requests'[1] = SubSeq(d[j], k + 1 + 1, Len(d[j]))
        BY <3>4, <3>5
      <3>7. QED BY <1>2, <2>1, <3>1, <3>4, <3>6 DEF Written
    <2>2. CASE k + 1 = Len(d[j])
      <3>1. requests' = Tail(requests) /\ git' = IF Len(requests) > 1 THEN "wait" ELSE "end"
        BY <2>0, <2>2, <1>1
      <3>2. CASE Len(requests) > 1
        <4>1. git' = "wait" /\ requests' = Tail(requests)
          BY <3>1, <3>2
        <4>2. Len(d) \in Nat /\ Len(requests') = Len(d) - j /\ j < Len(d)
          <5>1. Len(d) \in Nat
            BY DialogueTypes
          <5>2. Len(requests) = Len(d) - j + 1
            BY <1>2
          <5>3. Len(requests') = Len(requests) - 1
            BY <1>4, <4>1
          <5>4. QED BY <3>2, <5>1, <5>2, <5>3
        <4>3. \A i \in 1..Len(requests') : requests'[i] = d[i + j]
          <5>1. SUFFICES ASSUME NEW i \in 1..Len(requests') PROVE requests'[i] = d[i + j]
            OBVIOUS
          <5>2. requests'[i] = requests[i + 1] /\ i + 1 \in 2..Len(requests)
            BY <1>2, <1>4, <4>1, <4>2
          <5>3. requests[i + 1] = d[(i + 1) + j - 1] /\ (i + 1) + j - 1 = i + j
            BY <1>2, <5>2
          <5>4. QED BY <5>2, <5>3
        <4>4. QED BY <1>4, <2>2, <4>1, <4>2, <4>3 DEF Written
      <3>3. CASE Len(requests) = 1
        <4>1. requests' = <<>>
          <5>1. Tail(requests) \in Seq(Seq(Lines)) /\ Len(Tail(requests)) = 0
            BY <1>4, <3>3
          <5>2. Tail(requests) = <<>>
            BY <5>1, EmptySeq
          <5>3. QED BY <3>1, <5>2
        <4>2. requests' \in Seq(Seq(Lines)) /\ git' = "end"
          BY <1>4, <3>1, <3>3
        <4>3. QED BY <2>2, <4>1, <4>2 DEF Written
      <3>4. QED BY <1>2, <3>2, <3>3, DialogueTypes
    <2>3. QED BY <1>1, <1>2, <2>1, <2>2
  <1>7. Heard(d, j, m)'
    BY <1>2 DEF At, Heard, GitWrites
  <1>8. QED BY <1>1, <1>2, <1>5, <1>6, <1>7 DEF At, Piped

\* git reads its answer and goes on with its next request.
LEMMA ReadsKeep ==
    ASSUME NEW d \in Dialogues, NEW j \in 1..Len(d), NEW k \in 0..Len(d[j]),
           NEW m \in 0..k, At(d, j, k, m), GitReads
    PROVE  git' = "send" /\ j + 1 \in 1..Len(d) /\ At(d, j + 1, 0, 0)'
  <1>1. /\ git = "wait" /\ flushed = 1 /\ helper = "main" /\ m = Len(d[j])
        /\ k = Len(d[j]) /\ j < Len(d) /\ Len(requests) = Len(d) - j
        /\ \A i \in 1..Len(requests) : requests[i] = d[i + j]
        /\ requests \in Seq(Seq(Lines))
    BY DEF At, Written, Heard, GitReads
  <1>2. Len(d) \in Nat /\ j + 1 \in 1..Len(d)
    BY <1>1, DialogueTypes
  <1>3. d[j + 1] \in Seq(Lines) /\ Len(d[j + 1]) \in Nat \ {0}
    BY <1>2, DialogueTypes
  <1>4. SubSeq(d[j + 1], 1, Len(d[j + 1])) = d[j + 1]
    BY <1>3, SubSeqFull
  <1>5. requests[1] = d[j + 1] /\ \A i \in 2..Len(requests) : requests[i] = d[i + (j + 1) - 1]
    BY <1>1, <1>2
  <1>6. git' = "send" /\ requests' = requests /\ pipe' = pipe /\ flushed' = 0
        /\ UNCHANGED <<helper, batch, buffered>>
    BY <1>1 DEF GitReads
  <1>7. Written(d, j + 1, 0)'
    BY <1>1, <1>2, <1>3, <1>4, <1>5, <1>6 DEF Written
  <1>8. Piped(d, j + 1, 0, 0)'
    BY <1>1, <1>6, DialogueTypes DEF At, Piped
  <1>9. Heard(d, j + 1, 0)'
    BY <1>1, <1>6 DEF At, Heard
  <1>10. QED BY <1>2, <1>6, <1>7, <1>8, <1>9 DEF At

\* The helper reads the next line.
LEMMA ReadLine ==
    ASSUME NEW d \in Dialogues, NEW j \in 1..Len(d), NEW k \in 0..Len(d[j]),
           NEW m \in 0..k, At(d, j, k, m), pipe # <<>>
    PROVE  /\ m + 1 \in 0..k /\ flushed = 0 /\ (helper = "main" => m = 0)
           /\ Head(pipe) \in {d[j][m + 1], Oversized}
           /\ pipe' = Tail(pipe) => Piped(d, j, k, m + 1)'
  <1>0. Len(d[j]) \in Nat \ {0}
    BY DialogueTypes
  <1>1. /\ pipe \in Seq(Lines \cup {Oversized}) /\ Len(pipe) = k - m
        /\ \A i \in 1..Len(pipe) : pipe[i] \in {d[j][i + m], Oversized}
    BY DEF At, Piped
  <1>2. Len(pipe) > 0
    <2> DEFINE L == Lines \cup {Oversized}
    <2>1. pipe \in Seq(L)
      BY <1>1
    <2> HIDE DEF L
    <2>2. QED BY <2>1, EmptySeq
  <1>3. m + 1 \in 0..k /\ m < Len(d[j])
    BY <1>0, <1>1, <1>2
  <1>4. flushed = 0 /\ (helper = "main" => m = 0)
    BY <1>3 DEF At, Heard
  <1>5. /\ Tail(pipe) \in Seq(Lines \cup {Oversized}) /\ Len(Tail(pipe)) = Len(pipe) - 1
        /\ \A i \in 1..Len(Tail(pipe)) : Tail(pipe)[i] = pipe[i + 1]
    <2> DEFINE L == Lines \cup {Oversized}
    <2>1. pipe \in Seq(L)
      BY <1>1
    <2> HIDE DEF L
    <2>2. /\ Tail(pipe) \in Seq(L) /\ Len(Tail(pipe)) = Len(pipe) - 1
          /\ \A i \in 1..Len(Tail(pipe)) : Tail(pipe)[i] = pipe[i + 1]
      BY <2>1, HeadTailProperties
    <2>3. QED BY <2>2 DEF L
  <1>6. Head(pipe) \in {d[j][m + 1], Oversized}
    <2>1. Head(pipe) = pipe[1] /\ 1 \in 1..Len(pipe) /\ 1 + m = m + 1
      BY <1>1, <1>2
    <2>2. QED BY <1>1, <2>1
  <1>7. ASSUME pipe' = Tail(pipe) PROVE Piped(d, j, k, m + 1)'
    <2>1. ASSUME NEW i \in 1..Len(pipe') PROVE pipe'[i] \in {d[j][i + (m + 1)], Oversized}
      <3>1. pipe'[i] = pipe[i + 1] /\ i + 1 \in 1..Len(pipe) /\ (i + 1) + m = i + (m + 1)
        BY <1>1, <1>5, <1>7
      <3>2. QED BY <1>1, <3>1
    <2>2. Len(pipe') = k - (m + 1)
      BY <1>1, <1>5, <1>7
    <2>3. QED BY <1>5, <1>7, <2>1, <2>2 DEF Piped
  <1>8. QED BY <1>3, <1>4, <1>6, <1>7

\* What the helper does while git lives leaves it at the same request.
LEMMA HelperKeeps ==
    ASSUME NEW d \in Dialogues, NEW j \in 1..Len(d), NEW k \in 0..Len(d[j]),
           NEW m \in 0..k, At(d, j, k, m), open, HelperStep
    PROVE  \E n \in 0..k : Piped(d, j, k, n)' /\ Heard(d, j, n)'
  <1>0. /\ d[j] \in Seq(Lines) /\ Len(d[j]) \in Nat \ {0} /\ IsRequest(d[j])
        /\ \A i \in 1..Len(d[j]) : d[j][i] \in Lines
    BY DialogueTypes
  <1>1. Oversized.kind = "oversized"
    BY DEF Oversized
  <1>2. ASSUME helper = "main", NextIs({"option", "capabilities", "list"}), pipe' = Tail(pipe),
               helper' = "main", buffered' = 0, flushed' = flushed + buffered + 1
        PROVE  Piped(d, j, k, 1)' /\ Heard(d, j, 1)' /\ 1 \in 0..k
    <2>1. pipe # <<>> /\ Head(pipe).kind \in {"option", "capabilities", "list"}
      BY <1>2 DEF NextIs
    <2>2. m = 0 /\ flushed = 0 /\ Head(pipe) = d[j][1] /\ 1 \in 0..k /\ Piped(d, j, k, 1)'
      BY <1>1, <1>2, <2>1, ReadLine
    <2>3. Len(d[j]) = 1
      BY <1>0, <2>1, <2>2 DEF IsRequest
    <2>4. buffered = 0
      BY DEF At, Heard
    <2>5. QED BY <1>2, <2>2, <2>3, <2>4 DEF Heard
  <1>3. ASSUME helper' = "exited", buffered' = 0, flushed' = flushed + buffered, flushed = 0,
               NEW n \in 0..k, Piped(d, j, k, n)'
        PROVE  Heard(d, j, n)'
    <2>1. buffered = 0
      BY DEF At, Heard
    <2>2. QED BY <1>3, <2>1 DEF Heard
  <1>4. ASSUME pipe' = pipe PROVE Piped(d, j, k, m)'
    BY <1>4 DEF At, Piped
  <1>5. CASE SetOption
    <2>1. NextIs({"option", "capabilities", "list"})
      BY <1>5 DEF SetOption, NextIs
    <2>2. QED BY <1>2, <1>5, <2>1 DEF SetOption, Answer
  <1>6. CASE AnswerLine
    <2>1. NextIs({"option", "capabilities", "list"}) /\ helper = "main" /\ pipe' = Tail(pipe)
      BY <1>6 DEF AnswerLine, NextIs
    <2>2. CASE Answer /\ UNCHANGED helper
      BY <1>2, <2>1, <2>2 DEF Answer
    <2>3. CASE Exit /\ flushed' = flushed + buffered /\ buffered' = 0
      <3>1. flushed = 0 /\ m + 1 \in 0..k /\ Piped(d, j, k, m + 1)'
        BY <2>1, ReadLine DEF NextIs
      <3>2. QED BY <1>3, <2>3, <3>1 DEF Exit
    <2>4. QED BY <1>6, <2>2, <2>3 DEF AnswerLine
  <1>7. CASE BeginBatch
    <2>1. /\ helper = "main" /\ pipe # <<>> /\ Head(pipe).kind \in {"fetch", "push"}
          /\ pipe' = Tail(pipe) /\ helper' = "batch" /\ batch' = <<Head(pipe)>>
          /\ UNCHANGED <<buffered, flushed>>
      BY <1>7 DEF BeginBatch, NextIs
    <2>2. m = 0 /\ flushed = 0 /\ Head(pipe) = d[j][1] /\ 1 \in 0..k /\ Piped(d, j, k, 1)'
      BY <1>1, <2>1, ReadLine
    <2>3. Len(d[j]) > 1
      BY <1>0, <2>1, <2>2 DEF IsRequest
    <2>4. batch' = SubSeq(d[j], 1, 1)
      <3>1. Append(SubSeq(d[j], 1, 0), d[j][0 + 1]) = SubSeq(d[j], 1, 0 + 1)
        BY <1>0, AppendNext
      <3>2. SubSeq(d[j], 1, 0) = <<>>
        BY SubSeqEmpty
      <3>3. Append(<<>>, d[j][1]) = <<d[j][1]>>
        OBVIOUS
      <3>4. QED BY <2>1, <2>2, <3>1, <3>2, <3>3
    <2>5. buffered = 0
      BY DEF At, Heard
    <2>6. QED BY <1>0, <2>1, <2>2, <2>3, <2>4, <2>5 DEF Heard
  <1>8. CASE LeaveMain
    <2>1. pipe # <<>>
      BY <1>8 DEF LeaveMain, AtEnd, NextIs
    <2>2. QED BY <1>3, <1>4, <1>8, <2>1, ReadLine DEF LeaveMain, Exit
  <1>9. ASSUME helper = "batch", pipe # <<>>
        PROVE  /\ m \in 1..(Len(d[j]) - 1) /\ batch = SubSeq(d[j], 1, m)
               /\ batch[1] = d[j][1] /\ d[j][1].kind \in {"fetch", "push"}
               /\ \A i \in 1..(Len(d[j]) - 1) : d[j][i].kind = d[j][1].kind
               /\ d[j][Len(d[j])].kind = "blank"
               /\ flushed = 0 /\ buffered = 0
    <2>1. /\ m \in 1..(Len(d[j]) - 1) /\ batch = SubSeq(d[j], 1, m)
          /\ flushed = 0 /\ buffered = 0
      BY <1>9 DEF At, Heard
    <2>2. batch[1] = d[j][1]
      BY <1>0, <2>1, SubSeqProperties
    <2>3. QED BY <1>0, <2>1, <2>2 DEF IsRequest
  <1>10. CASE CollectLine
    <2>1. /\ helper = "batch" /\ pipe # <<>> /\ Head(pipe).kind = batch[1].kind
          /\ pipe' = Tail(pipe) /\ batch' = Append(batch, Head(pipe))
          /\ UNCHANGED <<helper, buffered, flushed>>
      BY <1>10 DEF CollectLine, NextIs
    <2>2. Head(pipe) = d[j][m + 1] /\ m + 1 \in 0..k /\ Piped(d, j, k, m + 1)'
      BY <1>1, <1>9, <2>1, ReadLine
    <2>3. m + 1 \in 1..(Len(d[j]) - 1)
      BY <1>0, <1>9, <2>1, <2>2
    <2>4. batch' = SubSeq(d[j], 1, m + 1)
      BY <1>0, <1>9, <2>1, <2>2, <2>3, AppendNext
    <2>5. helper' = "batch" /\ flushed' = 0 /\ buffered' = 0
      BY <1>9, <2>1
    <2>6. Heard(d, j, m + 1)'
      BY <2>3, <2>4, <2>5 DEF Heard
    <2>7. QED BY <2>2, <2>6
  <1>11. CASE EndBatch
    <2>1. /\ helper = "batch" /\ pipe # <<>> /\ Head(pipe).kind = "blank"
          /\ pipe' = Tail(pipe) /\ helper' = "run"
          /\ UNCHANGED <<batch, buffered, flushed>>
      BY <1>11 DEF EndBatch, EndsBatch, AtEnd, NextIs
    <2>2. Head(pipe) = d[j][m + 1] /\ m + 1 \in 0..k /\ Piped(d, j, k, m + 1)'
      BY <1>1, <2>1, ReadLine
    <2>3. m + 1 = Len(d[j])
      <3>1. m + 1 \in 1..Len(d[j]) /\ d[j][m + 1].kind = "blank"
        BY <1>0, <1>9, <2>1, <2>2
      <3>2. d[j][1].kind # "blank" /\ \A i \in 1..(Len(d[j]) - 1) : d[j][i].kind = d[j][1].kind
        BY <1>9, <2>1
      <3>3. m + 1 \notin 1..(Len(d[j]) - 1)
        BY <3>1, <3>2
      <3>4. QED BY <1>0, <3>1, <3>3
    <2>4. m = Len(d[j]) - 1 /\ batch' = Front(d[j])
      BY <1>0, <1>9, <2>1, <2>3 DEF Front
    <2>5. m + 1 > 1 /\ flushed' = 0 /\ buffered' = 0
      BY <1>9, <2>1
    <2>6. Heard(d, j, m + 1)'
      BY <2>1, <2>3, <2>4, <2>5 DEF Heard
    <2>7. QED BY <2>2, <2>6
  <1>12. CASE AbortBatch
    BY <1>3, <1>4, <1>12, ReadLine DEF AbortBatch, Exit
  <1>13. CASE RunBatch
    <2>1. /\ helper = "run" /\ m = Len(d[j]) /\ flushed = 0 /\ buffered = 0 /\ pipe' = pipe
      BY <1>13 DEF RunBatch, At, Heard
    <2>2. CASE Answer /\ helper' = "main"
      BY <1>4, <2>1, <2>2 DEF Answer, Heard
    <2>3. CASE Exit /\ flushed' = flushed + buffered /\ buffered' = 0
      BY <1>3, <1>4, <2>1, <2>3 DEF Exit
    <2>4. QED BY <1>13, <2>2, <2>3 DEF RunBatch
  <1>14. QED
    BY <1>5, <1>6, <1>7, <1>8, <1>10, <1>11, <1>12, <1>13 DEF HelperStep

\* A batch that is run is a whole one, and options are options.
LEMMA RunsWhole ==
    ASSUME NEW d \in Dialogues, NEW j \in 1..Len(d), NEW k \in 0..Len(d[j]),
           NEW m \in 0..k, At(d, j, k, m), HelperNext,
           options \in SUBSET Names, RanWhole
    PROVE  options' \in SUBSET Names /\ RanWhole'
  <1>1. d[j] \in Seq(Lines) /\ Len(d[j]) \in Nat \ {0} /\ \A i \in 1..Len(d[j]) : d[j][i] \in Lines
    BY DialogueTypes
  <1>2. options' \in SUBSET Names
    <2>1. CASE SetOption
      BY <2>1 DEF SetOption, WithOption, Names
    <2>2. CASE UNCHANGED options
      BY <2>2
    <2>3. QED
      BY <2>1, <2>2 DEF HelperNext, HelperStep, GitWrites, GitReads, GitGivesUp, GitDies,
         AnswerLine, BeginBatch, LeaveMain, CollectLine, EndBatch, AbortBatch, RunBatch
  <1>3. UNCHANGED ran \/ (RunBatch /\ ran' = Append(ran, [lines |-> batch, options |-> options]))
    BY DEF HelperNext, HelperStep, GitWrites, GitReads, GitGivesUp, GitDies, SetOption,
       AnswerLine, BeginBatch, LeaveMain, CollectLine, EndBatch, AbortBatch, RunBatch
  <1>4. CASE UNCHANGED ran
    BY <1>2, <1>4 DEF RanWhole
  <1>5. CASE RunBatch /\ ran' = Append(ran, [lines |-> batch, options |-> options])
    <2> DEFINE run == [lines |-> batch, options |-> options]
    <2>1. batch = Front(d[j])
      BY <1>5 DEF RunBatch, At, Heard
    <2>2. Front(d[j]) \in Seq(Lines)
      BY <1>1, SubSeqProperties DEF Front
    <2>3. run \in Runs /\ run.lines = Front(d[j])
      BY <2>1, <2>2 DEF Runs
    <2> HIDE DEF run
    <2>4. ran \in Seq(Runs) /\ Len(ran) \in Nat
      BY LenProperties DEF RanWhole
    <2>5. /\ ran' \in Seq(Runs) /\ Len(ran') = Len(ran) + 1
          /\ \A i \in 1..Len(ran) : ran'[i] = ran[i]
          /\ ran'[Len(ran) + 1] = run
      BY <1>5, <2>3, <2>4, AppendProperties DEF run
    <2>6. ASSUME NEW i \in 1..Len(ran')
          PROVE  \E e \in Dialogues : \E n \in 1..Len(e) : Front(e[n]) = ran'[i].lines
      <3>1. CASE i \in 1..Len(ran)
        <4>1. \E e \in Dialogues : \E n \in 1..Len(e) : Front(e[n]) = ran[i].lines
          BY <3>1 DEF RanWhole
        <4>2. ran'[i] = ran[i]
          BY <2>5, <3>1
        <4>3. QED BY <4>1, <4>2
      <3>2. CASE i = Len(ran) + 1
        <4>1. Front(d[j]) = ran'[i].lines
          BY <2>3, <2>5, <3>2
        <4>2. QED BY <4>1
      <3>3. QED BY <2>4, <2>5, <3>1, <3>2
    <2>7. QED BY <1>2, <2>5, <2>6 DEF RanWhole
  <1>6. QED BY <1>2, <1>3, <1>4, <1>5

-----------------------------------------------------------------------------
(* The theorem *)

\* git starts at the first line of its first request.
LEMMA InitDialogue == HelperInit => HelperInv
  <1> SUFFICES ASSUME HelperInit PROVE HelperInv
    OBVIOUS
  <1>1. PICK d \in Dialogues : requests = d
    BY DEF HelperInit
  <1>2. d \in Seq(Seq(Lines)) /\ 1 \in 1..Len(d) /\ d[1] \in Seq(Lines) /\ Len(d[1]) \in Nat \ {0}
    <2>1. d \in Seq(Seq(Lines)) /\ 1 \in 1..Len(d)
      BY DialogueTypes
    <2>2. QED BY <2>1, DialogueTypes
  <1>3. SubSeq(d[1], 0 + 1, Len(d[1])) = d[1]
    BY <1>2, SubSeqFull
  <1>4. Written(d, 1, 0)
    BY <1>1, <1>2, <1>3 DEF HelperInit, Written
  <1>5. Piped(d, 1, 0, 0)
    <2>1. pipe \in Seq(Lines \cup {Oversized}) /\ Len(pipe) = 0
      BY EmptySeq DEF HelperInit
    <2>2. QED BY <2>1 DEF Piped
  <1>6. Heard(d, 1, 0)
    BY DEF HelperInit, Heard
  <1>7. RanWhole /\ options \in SUBSET Names /\ git = "send"
    <2>1. ran \in Seq(Runs) /\ Len(ran) = 0
      BY EmptySeq DEF HelperInit
    <2>2. QED BY <2>1 DEF HelperInit, RanWhole
  <1>8. \E k \in 0..Len(d[1]) : \E m \in 0..k : At(d, 1, k, m)
    <2>1. 0 \in 0..Len(d[1]) /\ 0 \in 0..0 /\ At(d, 1, 0, 0)
      BY <1>2, <1>4, <1>5, <1>6 DEF At
    <2>2. QED BY <2>1
  <1>9. QED BY <1>2, <1>7, <1>8 DEF HelperInv

\* Every step that leaves git alive keeps it and the helper at one request.
LEMMA StepDialogue == HelperInv /\ [HelperNext]_helperVars => HelperInv'
  <1> SUFFICES ASSUME HelperInv, [HelperNext]_helperVars, open'
               PROVE  /\ git' \in {"send", "wait", "end"} /\ options' \in SUBSET Names
                      /\ RanWhole'
                      /\ \E d \in Dialogues : \E j \in 1..Len(d) :
                         \E k \in 0..Len(d[j]) : \E m \in 0..k : At(d, j, k, m)'
    BY DEF HelperInv
  <1>1. open /\ ~GitGivesUp /\ ~GitDies
    BY DEF helperVars, HelperNext, HelperStep, GitWrites, GitReads, GitGivesUp, GitDies,
       SetOption, AnswerLine, BeginBatch, LeaveMain, CollectLine, EndBatch, AbortBatch, RunBatch
  <1>2. PICK d \in Dialogues : \E j \in 1..Len(d) :
               \E k \in 0..Len(d[j]) : \E m \in 0..k : At(d, j, k, m)
    BY <1>1 DEF HelperInv
  <1> PICK j \in 1..Len(d) : \E k \in 0..Len(d[j]) : \E m \in 0..k : At(d, j, k, m)
    BY <1>2
  <1>3. PICK k \in 0..Len(d[j]) : \E m \in 0..k : At(d, j, k, m)
    OBVIOUS
  <1>4. PICK m \in 0..k : At(d, j, k, m)
    BY <1>3
  <1>5. /\ git \in {"send", "wait", "end"} /\ options \in SUBSET Names /\ RanWhole
        /\ Len(d[j]) \in Nat
    BY <1>1, DialogueTypes DEF HelperInv
  <1>6. CASE HelperNext
    <2>1. options' \in SUBSET Names /\ RanWhole'
      BY <1>4, <1>5, <1>6, RunsWhole
    <2>2. CASE GitWrites
      <3>1. git' \in {"send", "wait", "end"} /\ At(d, j, k + 1, m)' /\ k + 1 \in 0..Len(d[j])
        BY <1>4, <2>2, WritesKeep
      <3>2. m \in 0..(k + 1)
        BY <1>5
      <3>3. QED BY <2>1, <3>1, <3>2
    <2>3. CASE GitReads
      <3>1. git' = "send" /\ j + 1 \in 1..Len(d) /\ At(d, j + 1, 0, 0)'
        BY <1>4, <2>3, ReadsKeep
      <3>2. 0 \in 0..Len(d[j + 1]) /\ 0 \in 0..0
        BY <3>1, DialogueTypes
      <3>3. QED BY <2>1, <3>1, <3>2
    <2>4. CASE HelperStep
      <3>1. PICK n \in 0..k : Piped(d, j, k, n)' /\ Heard(d, j, n)'
        BY <1>1, <1>4, <2>4, HelperKeeps
      <3>2. git' = git /\ requests' = requests
        BY <2>4 DEF HelperStep, SetOption, AnswerLine, BeginBatch, LeaveMain, CollectLine,
           EndBatch, AbortBatch, RunBatch
      <3>3. Written(d, j, k)'
        BY <1>4, <3>2 DEF At, Written
      <3>4. QED BY <1>5, <2>1, <3>1, <3>2, <3>3 DEF At
    <2>5. QED BY <1>1, <1>6, <2>2, <2>3, <2>4 DEF HelperNext
  <1>7. CASE UNCHANGED helperVars
    <2>1. At(d, j, k, m)'
      BY <1>4, <1>7 DEF helperVars, At, Written, Piped, Heard
    <2>2. QED BY <1>5, <1>7, <2>1 DEF helperVars, RanWhole
  <1>8. QED BY <1>6, <1>7

\* helper.go:143-151: a batch that was cut off is never partially executed.  While
\* git lives, every batch the helper has run is one that git asked for, from its
\* first line to its last, whatever the scanner could not read and wherever the
\* engine failed (collectBatch, Main).
THEOREM BatchesRunWhole == HelperSpec => []WholeBatches
  <1>1. HelperInv => WholeBatches
    BY DEF HelperInv, RanWhole, WholeBatches
  <1>2. QED BY <1>1, InitDialogue, StepDialogue, PTL DEF HelperSpec

=============================================================================
