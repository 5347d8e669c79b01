-------------------------- MODULE CompletionProofs --------------------------
(***************************************************************************)
(* The two searches for a completion agree with the definition, and the    *)
(* board is one, for every number of slices and every retained row.        *)
(***************************************************************************)
EXTENDS Completion, TLAPS

Recent(p, k) == p[k] \in in.recent[k]

\* The left sweep's tags of slice k follow the completion p.
Carried(p, k) ==
  /\ p[k] \in prefix[k].valid
  /\ (\E j \in 1 .. (k - 1) : Recent(p, j)) => p[k] \in prefix[k].recent

\* So do find_completion's.
Marked(p, k) ==
  /\ p[k] \in suffix[k].valid
  /\ (\E j \in k .. N : Recent(p, j)) => p[k] \in suffix[k].recent

Typed ==
  /\ in \in Inputs
  /\ phase \in {"left", "scan", "right", "first", "follow", "done"}
  /\ at \in Relation /\ todo \subseteq in.gate[at]
  /\ prefix \in [Slice -> Tags] /\ suffix \in [Slice -> Tags]
  /\ board \in [Slice -> Leaf \cup {NoLeaf}] /\ seen \in BOOLEAN

LeftInv ==
  /\ phase = "scan" => at = N - 1 /\ todo = {}
  /\ phase \in {"left", "scan"} =>
       \A p \in Completions(in) :
         /\ \A k \in 1 .. at : Carried(p, k)
         /\ <<p[at], p[at + 1]>> \notin todo => Carried(p, at + 1)

RightInv ==
  /\ phase = "first" => at = 1 /\ todo = {}
  /\ phase \in {"right", "first"} =>
       \A p \in Completions(in) :
         /\ \A k \in (at + 1) .. N : Marked(p, k)
         /\ <<p[at], p[at + 1]>> \notin todo => Marked(p, at)

\* Every tag from the right has a successor that justifies it.
Justified ==
  /\ suffix[N].valid \subseteq in.valid[N] /\ suffix[N].recent \subseteq in.recent[N]
  /\ \A k \in Relation :
       /\ \A x \in suffix[k].valid :
            x \in in.valid[k] /\ \E y \in suffix[k + 1].valid : <<x, y>> \in in.gate[k]
       /\ \A x \in suffix[k].recent :
            x \in in.recent[k] \/ \E y \in suffix[k + 1].recent : <<x, y>> \in in.gate[k]
  /\ \A k \in Slice : suffix[k].recent \subseteq suffix[k].valid

\* The board so far is a row of valid leaves which can be continued to a completion.
FollowInv ==
  phase = "follow" =>
    /\ todo = {}
    /\ \A j \in 1 .. at : board[j] \in Leaf /\ board[j] \in in.valid[j]
    /\ \A j \in 1 .. (at - 1) : <<board[j], board[j + 1]>> \in in.gate[j]
    /\ seen = (\E j \in 1 .. at : board[j] \in in.recent[j])
    /\ board[at] \in IF seen THEN suffix[at].valid ELSE suffix[at].recent

ResultInv ==
  /\ phase # "done" => result = "running"
  /\ result = "none" => Completions(in) = {}
  /\ result \in {"running", "none", "completion"}
  /\ result = "completion" => board \in Completions(in)

IInv == Typed /\ LeftInv /\ RightInv /\ Justified /\ FollowInv /\ ResultInv

-----------------------------------------------------------------------------
LEMMA Bounds ==
  /\ N \in Nat /\ N > 1 /\ 1 \in Relation /\ N - 1 \in Relation /\ 1 \in Slice /\ N \in Slice
  /\ \A k \in Relation : k \in Slice /\ k + 1 \in Slice /\ k \in Nat
  BY CompletionAssumption DEF Relation, Slice

LEMMA InputFacts ==
  ASSUME NEW c \in Inputs
  PROVE  /\ \A i \in Relation : c.gate[i] \subseteq Leaf \X Leaf
         /\ \A i \in Slice : c.valid[i] \subseteq Leaf /\ c.recent[i] \subseteq c.valid[i]
         /\ c.cached \in BOOLEAN
  BY CompletionAssumption DEF Input

LEMMA CompletionFacts ==
  ASSUME NEW p \in Completions(in)
  PROVE  /\ p \in [Slice -> Leaf]
         /\ \A i \in Relation : <<p[i], p[i + 1]>> \in in.gate[i]
         /\ \A i \in Slice : p[i] \in in.valid[i]
         /\ \E i \in Slice : Recent(p, i)
  BY DEF Completions, Rows, Row, Recent

LEMMA KeptEnds ==
  ASSUME NEW p \in Completions(in)
  PROVE  p[1] \in Kept(1) /\ p[N] \in Kept(N)
<1>1. <<p[1], p[2]>> \in in.gate[1] /\ <<p[N - 1], p[N]>> \in in.gate[N - 1]
  <2>1. (N - 1) + 1 = N
    BY Bounds
  <2> QED
    BY <2>1, Bounds, CompletionFacts
<1>2. p[1] \in {e[1] : e \in in.gate[1]} /\ p[N] \in {e[2] : e \in in.gate[N - 1]}
  BY <1>1
<1> QED
  BY <1>2, Bounds DEF Kept

LEMMA KeptLeaf ==
  ASSUME in \in Inputs
  PROVE  Kept(1) \subseteq Leaf /\ Kept(N) \subseteq Leaf
  BY InputFacts, Bounds DEF Kept

\* The tags with which find_completion begins.
LEMMA LastTagsValues ==
  ASSUME in \in Inputs, NEW s, s = LastTags(in, Kept(N))
  PROVE  /\ s[N] = [valid |-> Kept(N) \cap in.valid[N], recent |-> Kept(N) \cap in.recent[N]]
         /\ \A k \in Slice \ {N} : s[k] = [valid |-> {}, recent |-> {}]
         /\ \A k \in Relation : k \in Slice \ {N}
         /\ in.recent[N] \subseteq in.valid[N]
         /\ s \in [Slice -> Tags]
<1>1. /\ s[N] = [valid |-> Kept(N) \cap in.valid[N], recent |-> Kept(N) \cap in.recent[N]]
      /\ \A k \in Slice \ {N} : s[k] = [valid |-> {}, recent |-> {}]
      /\ s = [k \in Slice |-> s[k]]
  BY Bounds DEF LastTags, NoTags
<1>2. \A k \in Relation : k \in Slice \ {N}
  BY Bounds DEF Relation, Slice
<1>3. in.recent[N] \subseteq in.valid[N] /\ in.valid[N] \subseteq Leaf
  BY InputFacts, Bounds
<1>4. \A k \in Slice : s[k] \in Tags
  BY <1>1, <1>3 DEF Tags
<1> QED
  BY <1>1, <1>2, <1>3, <1>4

LEMMA LastTagsMark ==
  ASSUME in \in Inputs, NEW s, s = LastTags(in, Kept(N)), NEW p \in Completions(in)
  PROVE  p[N] \in s[N].valid /\ (Recent(p, N) => p[N] \in s[N].recent)
<1>1. s[N] = [valid |-> Kept(N) \cap in.valid[N], recent |-> Kept(N) \cap in.recent[N]]
  BY LastTagsValues
<1>2. p[N] \in Kept(N) /\ p[N] \in in.valid[N]
  BY KeptEnds, CompletionFacts, Bounds
<1> QED
  BY <1>1, <1>2 DEF Recent

LEMMA NoTagsFacts ==
  ASSUME suffix = NoTags
  PROVE  Justified
<1>1. \A k \in Slice : suffix[k] = [valid |-> {}, recent |-> {}]
  BY DEF NoTags
<1> QED
  BY <1>1, Bounds DEF Justified

LEMMA NoTagsType == NoTags \in [Slice -> Tags]
  BY DEF NoTags, Tags

LEMMA InitInv == Init => IInv
<1> SUFFICES ASSUME Init PROVE IInv
  OBVIOUS
<1>1. in \in Inputs /\ result = "running"
  BY DEF Init
<1>2. board \in [Slice -> Leaf \cup {NoLeaf}] /\ seen \in BOOLEAN
  BY DEF Init
<1>3. CASE in.cached
  <2>1. phase = "left" /\ at = 1 /\ todo = in.gate[1] /\ suffix = NoTags
        /\ prefix = [NoTags EXCEPT ![1].valid = Kept(1)]
    BY <1>3 DEF Init
  <2>2. prefix[1].valid = Kept(1) /\ prefix \in [Slice -> Tags]
    <3>1. NoTags[1] = [valid |-> {}, recent |-> {}] /\ 1 \in Slice /\ Kept(1) \subseteq Leaf
      BY Bounds, KeptLeaf, <1>1 DEF NoTags
    <3>2. [NoTags[1] EXCEPT !.valid = Kept(1)] = [valid |-> Kept(1), recent |-> {}]
      BY <3>1
    <3> DEFINE T == [valid |-> Kept(1), recent |-> {}]
    <3>3. prefix = [NoTags EXCEPT ![1] = T]
      BY <2>1, <3>2
    <3>4. T \in Tags /\ T.valid = Kept(1)
      BY <3>1 DEF Tags
    <3> HIDE DEF T
    <3>5. prefix \in [Slice -> Tags] /\ prefix[1] = T
      BY <3>1, <3>3, <3>4, NoTagsType
    <3> QED
      BY <3>4, <3>5
  <2>3. Typed
    BY <1>1, <1>2, <2>1, <2>2, Bounds, NoTagsType DEF Typed
  <2>4. \A p \in Completions(in) : Carried(p, 1) /\ <<p[1], p[2]>> \in in.gate[1]
    <3> SUFFICES ASSUME NEW p \in Completions(in)
                 PROVE  Carried(p, 1) /\ <<p[1], p[2]>> \in in.gate[1]
      OBVIOUS
    <3>1. 1 .. (1 - 1) = {} /\ 1 + 1 = 2
      OBVIOUS
    <3> QED
      BY <2>2, <3>1, KeptEnds, CompletionFacts, Bounds DEF Carried
  <2>5. LeftInv
    BY <2>1, <2>4 DEF LeftInv
  <2> QED
    BY <1>1, <2>1, <2>3, <2>5, NoTagsFacts DEF IInv, RightInv, FollowInv, ResultInv
<1>4. CASE ~in.cached
  <2>1. phase = "right" /\ at = N - 1 /\ todo = in.gate[N - 1] /\ prefix = NoTags
        /\ suffix = LastTags(in, Kept(N))
    BY <1>4 DEF Init
  <2>2. Justified /\ suffix \in [Slice -> Tags]
    BY <1>1, <2>1, LastTagsValues DEF Justified
  <2>3. Typed
    BY <1>1, <1>2, <2>1, <2>2, Bounds, NoTagsType DEF Typed
  <2>4. RightInv
    <3> SUFFICES ASSUME NEW p \in Completions(in)
                 PROVE  (\A k \in (at + 1) .. N : Marked(p, k)) /\ <<p[at], p[at + 1]>> \in todo
      BY <2>1 DEF RightInv
    <3>1. (at + 1) .. N = {N} /\ at + 1 = N /\ N .. N = {N}
      BY <2>1, Bounds
    <3>2. Marked(p, N)
      BY <1>1, <2>1, <3>1, LastTagsMark DEF Marked
    <3> QED
      BY <2>1, <3>1, <3>2, CompletionFacts, Bounds
  <2> QED
    BY <1>1, <2>1, <2>2, <2>3, <2>4 DEF IInv, LeftInv, FollowInv, ResultInv
<1> QED
  BY <1>3, <1>4

-----------------------------------------------------------------------------
\* A visit adds a tag to one slice; every other slice keeps its tags.
LEMMA LeftVisitKeeps ==
  ASSUME IInv, NEW e \in todo, LeftVisit(e)
  PROVE  IInv'
<1>1. /\ phase = "left" /\ phase' = phase /\ at' = at /\ todo' = todo \ {e} /\ in' = in
      /\ suffix' = suffix /\ board' = board /\ seen' = seen /\ result' = result
  BY DEF LeftVisit
<1>2. Typed /\ LeftInv
  BY DEF IInv
<1>3. at \in Relation /\ at \in Slice /\ at + 1 \in Slice /\ at \in Nat /\ e \in in.gate[at]
      /\ e[1] \in Leaf /\ e[2] \in Leaf
  BY <1>2, Bounds, InputFacts DEF Typed
<1> DEFINE valid == e[1] \in prefix[at].valid /\ e[1] \in in.valid[at]
           recent == valid /\ (e[1] \in prefix[at].recent \/ e[1] \in in.recent[at])
           old == prefix[at + 1]
           new == [valid |-> IF valid THEN old.valid \cup {e[2]} ELSE old.valid,
                   recent |-> IF recent THEN old.recent \cup {e[2]} ELSE old.recent]
<1>4. prefix' = [prefix EXCEPT ![at + 1] = new]
  BY DEF LeftVisit
<1>5. old \in Tags /\ prefix \in [Slice -> Tags]
  BY <1>2, <1>3 DEF Typed
<1>6. old.valid \subseteq Leaf /\ old.recent \subseteq Leaf
  BY <1>5 DEF Tags
<1>7. /\ new.valid = IF valid THEN old.valid \cup {e[2]} ELSE old.valid
      /\ new.recent = IF recent THEN old.recent \cup {e[2]} ELSE old.recent
      /\ new \in Tags
  BY <1>3, <1>6 DEF Tags
<1> HIDE DEF new
<1>8. prefix' \in [Slice -> Tags] /\ prefix'[at + 1] = new
      /\ \A k \in Slice \ {at + 1} : prefix'[k] = prefix[k]
  BY <1>3, <1>4, <1>5, <1>7
<1>9. Typed'
  BY <1>1, <1>2, <1>8 DEF Typed
<1>10. ASSUME NEW p \in Completions(in)
       PROVE  /\ \A k \in 1 .. at : Carried(p, k)'
              /\ <<p[at], p[at + 1]>> \notin todo' => Carried(p, at + 1)'
  <2>1. \A k \in 1 .. at : Carried(p, k)
    BY <1>1, <1>2 DEF LeftInv
  <2>2. \A k \in 1 .. at : k \in Slice \ {at + 1}
    BY <1>3, Bounds DEF Slice, Relation
  <2>3. \A k \in 1 .. at : Carried(p, k)'
    BY <1>1, <1>8, <2>1, <2>2 DEF Carried, Recent
  <2>4. old.valid \subseteq new.valid /\ old.recent \subseteq new.recent
    BY <1>7
  <2>5. CASE <<p[at], p[at + 1]>> \notin todo
    <3>1. Carried(p, at + 1)
      BY <1>1, <1>2, <2>5 DEF LeftInv
    <3>2. Carried(p, at + 1)'
      BY <1>1, <1>8, <2>4, <3>1 DEF Carried, Recent
    <3> QED
      BY <2>3, <3>2
  <2>6. CASE <<p[at], p[at + 1]>> = e
    <3>1. e[1] = p[at] /\ e[2] = p[at + 1]
      BY <2>6
    <3>2. Carried(p, at) /\ p[at] \in in.valid[at]
      <4>1. at \in 1 .. at
        BY <1>3 DEF Relation
      <4> QED
        BY <1>3, <2>1, <4>1, CompletionFacts
    <3>3. valid
      BY <3>1, <3>2 DEF Carried
    <3>4. (\E j \in 1 .. at : Recent(p, j)) => recent
      <4>1. \A j \in 1 .. at : j = at \/ j \in 1 .. (at - 1)
        BY <1>3
      <4> QED
        BY <3>1, <3>2, <3>3, <4>1 DEF Carried, Recent
    <3>5. (at + 1) - 1 = at
      BY <1>3
    <3>6. Carried(p, at + 1)'
      BY <1>1, <1>7, <1>8, <3>1, <3>3, <3>4, <3>5 DEF Carried, Recent
    <3> QED
      BY <2>3, <3>6
  <2> QED
    BY <1>1, <2>3, <2>5, <2>6
<1>11. LeftInv'
  BY <1>1, <1>10 DEF LeftInv, Completions, Rows
<1> QED
  BY <1>1, <1>9, <1>11 DEF IInv, RightInv, Justified, FollowInv, ResultInv, Completions, Rows

LEMMA LeftDoneKeeps == ASSUME IInv, LeftRelationDone PROVE IInv'
<1>1. /\ phase = "left" /\ todo = {} /\ in' = in /\ prefix' = prefix
      /\ suffix' = suffix /\ board' = board /\ seen' = seen /\ result' = result
  BY DEF LeftRelationDone
<1>2. Typed /\ LeftInv /\ at \in Nat /\ at >= 1 /\ at <= N - 1
  BY Bounds DEF IInv, Typed, Relation
<1>3. \A p \in Completions(in) : \A k \in 1 .. (at + 1) : Carried(p, k)
  <2>1. \A k \in 1 .. (at + 1) : k \in 1 .. at \/ k = at + 1
    BY <1>2
  <2> QED
    BY <1>1, <1>2, <2>1 DEF LeftInv
<1>4. CASE at = N - 1
  <2>1. phase' = "scan" /\ at' = at /\ todo' = todo
    BY <1>4 DEF LeftRelationDone
  <2>2. LeftInv'
    BY <1>1, <1>2, <1>3, <1>4, <2>1 DEF LeftInv, Carried, Recent, Completions, Rows
  <2> QED
    BY <1>1, <1>2, <2>1, <2>2 DEF IInv, Typed, RightInv, Justified, FollowInv, ResultInv, Completions, Rows
<1>5. CASE at # N - 1
  <2>1. at' = at + 1 /\ todo' = in.gate[at + 1] /\ phase' = phase
    BY <1>5 DEF LeftRelationDone
  <2>2. at + 1 \in Relation
    BY <1>2, <1>5, Bounds DEF Relation
  <2>3. \A p \in Completions(in) : <<p[at'], p[at' + 1]>> \in todo'
    BY <2>1, <2>2, CompletionFacts
  <2>4. LeftInv'
    BY <1>1, <1>3, <2>1, <2>3 DEF LeftInv, Carried, Recent, Completions, Rows
  <2>5. Typed'
    BY <1>1, <1>2, <2>1, <2>2 DEF Typed
  <2> QED
    BY <1>1, <2>1, <2>4, <2>5 DEF IInv, RightInv, Justified, FollowInv, ResultInv, Completions, Rows
<1> QED
  BY <1>4, <1>5

LEMMA ScannedKeeps == ASSUME IInv, Scanned PROVE IInv'
<1>1. /\ phase = "scan" /\ in' = in /\ prefix' = prefix /\ board' = board /\ seen' = seen
      /\ result = "running"
  BY DEF Scanned, IInv, ResultInv
<1>2. Typed /\ at = N - 1 /\ todo = {} /\ in \in Inputs
  BY <1>1 DEF IInv, Typed, LeftInv
<1>3. CASE Scan
  <2>1. phase' = "right" /\ at' = N - 1 /\ todo' = in.gate[N - 1] /\ suffix' = LastTags(in, Kept(N))
        /\ result' = result
    BY <1>3 DEF Scanned
  <2>2. /\ suffix'[N] = [valid |-> Kept(N) \cap in.valid[N], recent |-> Kept(N) \cap in.recent[N]]
        /\ \A k \in Slice \ {N} : suffix'[k] = [valid |-> {}, recent |-> {}]
        /\ \A k \in Relation : k \in Slice \ {N}
        /\ in.recent[N] \subseteq in.valid[N]
        /\ suffix' \in [Slice -> Tags]
    BY <1>2, <2>1, LastTagsValues
  <2>3. Justified'
    BY <1>1, <2>2 DEF Justified
  <2>4. Typed'
    BY <1>1, <1>2, <2>1, <2>2, Bounds DEF Typed
  <2>5. ASSUME NEW p \in Completions(in)
        PROVE  (\A k \in (at' + 1) .. N : Marked(p, k)') /\ <<p[at'], p[at' + 1]>> \in todo'
    <3>1. (at' + 1) .. N = {N} /\ at' + 1 = N /\ N .. N = {N}
      BY <2>1, Bounds
    <3>2. p[N] \in suffix'[N].valid /\ (Recent(p, N) => p[N] \in suffix'[N].recent)
      BY <1>2, <2>1, LastTagsMark
    <3>3. Marked(p, N)'
      BY <1>1, <3>1, <3>2 DEF Marked, Recent
    <3>4. <<p[N - 1], p[N]>> \in in.gate[N - 1]
      BY <2>1, <3>1, CompletionFacts, Bounds
    <3> QED
      BY <2>1, <3>1, <3>3, <3>4
  <2>6. RightInv'
    BY <1>1, <2>1, <2>5 DEF RightInv, Completions, Rows
  <2> QED
    BY <1>1, <2>1, <2>3, <2>4, <2>6 DEF IInv, LeftInv, FollowInv, ResultInv, Completions, Rows
<1>4. CASE ~Scan
  <2>1. phase' = "done" /\ result' = "none" /\ at' = at /\ todo' = todo /\ suffix' = suffix
    BY <1>4 DEF Scanned
  <2>2. Completions(in) = {}
    <3> SUFFICES ASSUME NEW p \in Completions(in) PROVE Scan
      BY <1>4
    <3>1. p[N] \in Kept(N) /\ p[N] \in in.valid[N]
      BY KeptEnds, CompletionFacts, Bounds
    <3>2. (N - 1) + 1 = N
      BY Bounds
    <3>3. Carried(p, N)
      BY <1>1, <1>2, <3>2 DEF IInv, LeftInv
    <3>4. PICK i \in Slice : Recent(p, i)
      BY CompletionFacts
    <3>5. i = N \/ i \in 1 .. (N - 1)
      BY Bounds DEF Slice
    <3>6. p[N] \in in.recent[N] \/ p[N] \in prefix[N].recent
      BY <3>3, <3>4, <3>5 DEF Carried, Recent
    <3> QED
      BY <3>1, <3>3, <3>6 DEF Scan, Carried
  <2> QED
    BY <1>1, <1>2, <2>1, <2>2 DEF IInv, Typed, LeftInv, RightInv, Justified, FollowInv, ResultInv, Completions, Rows
<1> QED
  BY <1>3, <1>4

\* A visit from the right adds a tag to one slice, with the successor that allows it.
LEMMA RightVisitKeeps ==
  ASSUME IInv, NEW e \in todo, RightVisit(e)
  PROVE  IInv'
<1>1. /\ phase = "right" /\ phase' = phase /\ at' = at /\ todo' = todo \ {e} /\ in' = in
      /\ prefix' = prefix /\ board' = board /\ seen' = seen /\ result' = result
  BY DEF RightVisit
<1>2. Typed /\ RightInv /\ Justified
  BY DEF IInv
<1>3. /\ at \in Relation /\ at \in Slice /\ at + 1 \in Slice /\ at \in Nat /\ e \in in.gate[at]
      /\ e[1] \in Leaf /\ e[2] \in Leaf /\ e = <<e[1], e[2]>> /\ at # at + 1 /\ at # N
  BY <1>2, Bounds, InputFacts DEF Typed, Relation
<1> DEFINE next == suffix[at + 1]
           valid == e[2] \in next.valid /\ e[1] \in in.valid[at]
           recent == valid /\ (e[2] \in next.recent \/ e[1] \in in.recent[at])
           old == suffix[at]
           new == [valid |-> IF valid THEN old.valid \cup {e[1]} ELSE old.valid,
                   recent |-> IF recent THEN old.recent \cup {e[1]} ELSE old.recent]
<1>4. suffix' = [suffix EXCEPT ![at] = new]
  BY DEF RightVisit
<1>5. old \in Tags /\ suffix \in [Slice -> Tags]
  BY <1>2, <1>3 DEF Typed
<1>6. old.valid \subseteq Leaf /\ old.recent \subseteq Leaf
  BY <1>5 DEF Tags
<1>7. /\ new.valid = IF valid THEN old.valid \cup {e[1]} ELSE old.valid
      /\ new.recent = IF recent THEN old.recent \cup {e[1]} ELSE old.recent
      /\ new \in Tags
  BY <1>3, <1>6 DEF Tags
<1> HIDE DEF new
<1>8. suffix' \in [Slice -> Tags] /\ suffix'[at] = new
      /\ \A k \in Slice \ {at} : suffix'[k] = suffix[k]
  BY <1>3, <1>4, <1>5, <1>7
<1>9. Typed'
  BY <1>1, <1>2, <1>8 DEF Typed
<1>10. old.valid \subseteq new.valid /\ old.recent \subseteq new.recent
  BY <1>7
<1>11. ASSUME NEW p \in Completions(in)
       PROVE  /\ \A k \in (at + 1) .. N : Marked(p, k)'
              /\ <<p[at], p[at + 1]>> \notin todo' => Marked(p, at)'
  <2>1. \A k \in (at + 1) .. N : Marked(p, k)
    BY <1>1, <1>2 DEF RightInv
  <2>2. \A k \in (at + 1) .. N : k \in Slice \ {at}
    BY <1>3, Bounds DEF Slice, Relation
  <2>3. \A k \in (at + 1) .. N : Marked(p, k)'
    BY <1>1, <1>8, <2>1, <2>2 DEF Marked, Recent
  <2>5. CASE <<p[at], p[at + 1]>> \notin todo
    <3>1. Marked(p, at)
      BY <1>1, <1>2, <2>5 DEF RightInv
    <3>2. Marked(p, at)'
      BY <1>1, <1>8, <1>10, <3>1 DEF Marked, Recent
    <3> QED
      BY <2>3, <3>2
  <2>6. CASE <<p[at], p[at + 1]>> = e
    <3>1. e[1] = p[at] /\ e[2] = p[at + 1]
      BY <2>6
    <3>2. Marked(p, at + 1) /\ p[at] \in in.valid[at]
      <4>1. at + 1 \in (at + 1) .. N
        BY <1>3, Bounds DEF Relation
      <4> QED
        BY <1>3, <2>1, <4>1, CompletionFacts
    <3>3. valid
      BY <3>1, <3>2 DEF Marked
    <3>4. (\E j \in at .. N : Recent(p, j)) => recent
      <4>1. \A j \in at .. N : j = at \/ j \in (at + 1) .. N
        BY <1>3
      <4> QED
        BY <3>1, <3>2, <3>3, <4>1 DEF Marked, Recent
    <3>6. Marked(p, at)'
      BY <1>1, <1>7, <1>8, <3>1, <3>3, <3>4 DEF Marked, Recent
    <3> QED
      BY <2>3, <3>6
  <2> QED
    BY <1>1, <2>3, <2>5, <2>6
<1>12. RightInv'
  BY <1>1, <1>11 DEF RightInv, Completions, Rows
<1>13. Justified'
  <2>1. suffix'[N] = suffix[N] /\ suffix'[at + 1] = next
    BY <1>3, <1>8, Bounds
  <2>2. \A k \in Slice : suffix'[k].recent \subseteq suffix'[k].valid
    BY <1>2, <1>3, <1>7, <1>8 DEF Justified
  <2>3. ASSUME NEW k \in Relation
        PROVE  /\ \A x \in suffix'[k].valid :
                    x \in in.valid[k] /\ \E y \in suffix'[k + 1].valid : <<x, y>> \in in.gate[k]
               /\ \A x \in suffix'[k].recent :
                    x \in in.recent[k] \/ \E y \in suffix'[k + 1].recent : <<x, y>> \in in.gate[k]
    <3>1. k \in Slice /\ k + 1 \in Slice
      BY Bounds
    <3>2. /\ \A x \in suffix[k].valid :
               x \in in.valid[k] /\ \E y \in suffix[k + 1].valid : <<x, y>> \in in.gate[k]
          /\ \A x \in suffix[k].recent :
               x \in in.recent[k] \/ \E y \in suffix[k + 1].recent : <<x, y>> \in in.gate[k]
      BY <1>2 DEF Justified
    <3>3. /\ suffix[k + 1].valid \subseteq suffix'[k + 1].valid
          /\ suffix[k + 1].recent \subseteq suffix'[k + 1].recent
      BY <1>8, <1>10, <3>1
    <3>4. CASE k # at
      <4>1. suffix'[k] = suffix[k]
        BY <1>8, <3>1, <3>4
      <4> QED
        BY <3>2, <3>3, <4>1
    <3>5. CASE k = at
      <4>1. \A x \in new.valid : x \in old.valid \/ (x = e[1] /\ valid)
        BY <1>7
      <4>2. \A x \in new.recent : x \in old.recent \/ (x = e[1] /\ recent)
        BY <1>7
      <4>3. valid => e[1] \in in.valid[at] /\ \E y \in next.valid : <<e[1], y>> \in in.gate[at]
        BY <1>3
      <4>4. recent => e[1] \in in.recent[at] \/ \E y \in next.recent : <<e[1], y>> \in in.gate[at]
        BY <1>3
      <4>5. /\ \A x \in new.valid :
                 x \in in.valid[at] /\ \E y \in next.valid : <<x, y>> \in in.gate[at]
            /\ \A x \in new.recent :
                 x \in in.recent[at] \/ \E y \in next.recent : <<x, y>> \in in.gate[at]
        BY <3>2, <3>5, <4>1, <4>2, <4>3, <4>4
      <4> QED
        BY <1>8, <2>1, <3>5, <4>5
    <3> QED
      BY <3>4, <3>5
  <2> QED
    BY <1>1, <1>2, <2>1, <2>2, <2>3 DEF Justified
<1> QED
  BY <1>1, <1>9, <1>12, <1>13 DEF IInv, LeftInv, FollowInv, ResultInv, Completions, Rows

LEMMA RightDoneKeeps == ASSUME IInv, RightRelationDone PROVE IInv'
<1>1. /\ phase = "right" /\ todo = {} /\ in' = in /\ prefix' = prefix
      /\ suffix' = suffix /\ board' = board /\ seen' = seen /\ result' = result
  BY DEF RightRelationDone
<1>2. Typed /\ RightInv /\ at \in Nat /\ at >= 1 /\ at <= N - 1
  BY Bounds DEF IInv, Typed, Relation
<1>3. \A p \in Completions(in) : \A k \in at .. N : Marked(p, k)
  <2>1. \A k \in at .. N : k \in (at + 1) .. N \/ k = at
    BY <1>2
  <2> QED
    BY <1>1, <1>2, <2>1 DEF RightInv
<1>4. CASE at = 1
  <2>1. phase' = "first" /\ at' = at /\ todo' = todo
    BY <1>4 DEF RightRelationDone
  <2>2. \A k \in (at + 1) .. N : k \in at .. N
    BY <1>2
  <2>3. at \in at .. N
    BY <1>2, Bounds
  <2>4. RightInv'
    BY <1>1, <1>3, <1>4, <2>1, <2>2, <2>3 DEF RightInv, Marked, Recent, Completions, Rows
  <2> QED
    BY <1>1, <1>2, <2>1, <2>4 DEF IInv, Typed, LeftInv, Justified, FollowInv, ResultInv, Completions, Rows
<1>5. CASE at # 1
  <2>1. at' = at - 1 /\ todo' = in.gate[at - 1] /\ phase' = phase
    BY <1>5 DEF RightRelationDone
  <2>2. at - 1 \in Relation /\ (at - 1) + 1 = at
    BY <1>2, <1>5, Bounds DEF Relation
  <2>3. \A p \in Completions(in) : <<p[at'], p[at' + 1]>> \in todo'
    BY <2>1, <2>2, CompletionFacts
  <2>4. RightInv'
    BY <1>1, <1>3, <2>1, <2>2, <2>3 DEF RightInv, Marked, Recent, Completions, Rows
  <2>5. Typed'
    BY <1>1, <1>2, <2>1, <2>2 DEF Typed
  <2> QED
    BY <1>1, <2>1, <2>4, <2>5 DEF IInv, LeftInv, Justified, FollowInv, ResultInv, Completions, Rows
<1> QED
  BY <1>4, <1>5

LEMMA FirstKeeps == ASSUME IInv, First PROVE IInv'
<1>1. /\ phase = "first" /\ in' = in /\ at' = at /\ todo' = todo /\ prefix' = prefix
      /\ suffix' = suffix /\ result = "running"
  BY DEF First, IInv, ResultInv
<1>2. Typed /\ RightInv /\ Justified /\ at = 1 /\ todo = {}
  BY <1>1 DEF IInv, RightInv
<1>3. CASE suffix[1].recent = {} /\ phase' = "done" /\ result' = "none" /\ board' = board /\ seen' = seen
  <2>1. Completions(in) = {}
    <3> SUFFICES ASSUME NEW p \in Completions(in) PROVE FALSE
      OBVIOUS
    <3>1. Marked(p, 1)
      BY <1>1, <1>2 DEF RightInv
    <3>2. \E i \in 1 .. N : Recent(p, i)
      BY CompletionFacts DEF Slice
    <3> QED
      BY <1>3, <3>1, <3>2 DEF Marked
  <2> QED
    BY <1>1, <1>2, <1>3, <2>1 DEF IInv, Typed, LeftInv, RightInv, Justified, FollowInv, ResultInv, Completions, Rows
<1>4. ASSUME NEW x \in suffix[1].recent, board' = [board EXCEPT ![1] = x],
             seen' = (x \in in.recent[1]), phase' = "follow", result' = result
      PROVE  IInv'
  <2>1. x \in suffix[1].valid /\ x \in in.valid[1] /\ x \in Leaf
    <3>1. x \in suffix[1].valid
      BY <1>2, <1>4, Bounds DEF Justified
    <3>2. x \in in.valid[1]
      BY <1>2, <3>1, Bounds DEF Justified
    <3> QED
      BY <1>2, <3>1, <3>2, InputFacts, Bounds DEF Typed
  <2>2. board \in [Slice -> Leaf \cup {NoLeaf}] /\ 1 \in Slice
    BY <1>2, Bounds DEF Typed
  <2>3. board' \in [Slice -> Leaf \cup {NoLeaf}] /\ board'[1] = x
    BY <1>4, <2>1, <2>2
  <2>4. Typed'
    BY <1>1, <1>2, <1>4, <2>3 DEF Typed
  <2>5. at' = 1 /\ 1 .. 1 = {1} /\ 1 .. (1 - 1) = {}
    BY <1>1, <1>2
  <2>6. seen' = (board'[1] \in in.recent[1])
    BY <1>4, <2>3
  <2>7. FollowInv'
    <3>1. /\ \A j \in 1 .. at' : board'[j] \in Leaf /\ board'[j] \in in'.valid[j]
          /\ \A j \in 1 .. (at' - 1) : <<board'[j], board'[j + 1]>> \in in'.gate[j]
      BY <1>1, <2>1, <2>3, <2>5
    <3>2. (\E j \in 1 .. at' : board'[j] \in in'.recent[j]) <=> seen'
      BY <1>1, <2>5, <2>6
    <3>3. seen' = (\E j \in 1 .. at' : board'[j] \in in'.recent[j])
      BY <3>2, <2>4, Zenon DEF Typed
    <3>4. board'[at'] \in IF seen' THEN suffix'[at'].valid ELSE suffix'[at'].recent
      BY <1>1, <1>4, <2>1, <2>3, <2>5
    <3>5. todo' = {}
      BY <1>1, <1>2
    <3> QED
      BY <3>1, <3>3, <3>4, <3>5, Zenon DEF FollowInv
  <2> QED
    BY <1>1, <1>2, <1>4, <2>4, <2>7 DEF IInv, LeftInv, RightInv, Justified, ResultInv, Completions, Rows
<1> QED
  BY <1>3, <1>4 DEF First

\* While the board grows it can be continued, so that no step throws.
LEMMA FollowKeeps == ASSUME IInv, Follow PROVE IInv'
<1>1. /\ phase = "follow" /\ in' = in /\ todo' = todo /\ prefix' = prefix
      /\ suffix' = suffix /\ result = "running"
  BY DEF Follow, IInv, ResultInv
<1>2. /\ Typed /\ Justified /\ in \in Inputs
      /\ at \in Relation /\ at \in Nat /\ at >= 1 /\ at <= N - 1 /\ at \in Slice /\ at + 1 \in Slice
      /\ board \in [Slice -> Leaf \cup {NoLeaf}] /\ seen \in BOOLEAN
  BY Bounds DEF IInv, Typed, Relation
<1>3. /\ todo = {}
      /\ \A j \in 1 .. at : board[j] \in Leaf /\ board[j] \in in.valid[j]
      /\ \A j \in 1 .. (at - 1) : <<board[j], board[j + 1]>> \in in.gate[j]
      /\ seen = (\E j \in 1 .. at : board[j] \in in.recent[j])
      /\ board[at] \in IF seen THEN suffix[at].valid ELSE suffix[at].recent
  BY <1>1 DEF IInv, FollowInv
<1>4. Successors # {}
  <2>1. \E y \in IF seen THEN suffix[at + 1].valid ELSE suffix[at + 1].recent :
          <<board[at], y>> \in in.gate[at]
    <3>1. CASE seen
      BY <1>2, <1>3, <3>1 DEF Justified
    <3>2. CASE ~seen
      <4>1. at \in 1 .. at
        BY <1>2
      <4>2. board[at] \notin in.recent[at]
        BY <1>3, <3>2, <4>1
      <4> QED
        BY <1>2, <1>3, <3>2, <4>2 DEF Justified
    <3> QED
      BY <3>1, <3>2, <1>2
  <2>2. in.gate[at] \subseteq Leaf \X Leaf
    BY <1>2, InputFacts
  <2> QED
    BY <2>1, <2>2 DEF Successors
<1>5. PICK y \in Successors :
        LET found == seen \/ y \in in.recent[at + 1] IN
          /\ board' = [board EXCEPT ![at + 1] = y] /\ seen' = found
          /\ IF at < N - 1 THEN at' = at + 1 /\ UNCHANGED <<phase, result>>
             ELSE /\ phase' = "done" /\ UNCHANGED at
                  /\ result' = IF found THEN "completion" ELSE "logic_error"
  BY <1>4 DEF Follow
<1> DEFINE found == seen \/ y \in in.recent[at + 1]
<1>6. /\ y \in Leaf /\ <<board[at], y>> \in in.gate[at] /\ y \in suffix[at + 1].valid
      /\ ~seen => y \in suffix[at + 1].recent
  BY <1>2 DEF Successors, Justified
<1>7. y \in in.valid[at + 1] /\ (at = N - 1 => found)
  <2>1. CASE at = N - 1
    <3>1. at + 1 = N
      BY <2>1, Bounds
    <3> QED
      BY <1>2, <1>6, <3>1 DEF Justified
  <2>2. CASE at # N - 1
    <3>1. at + 1 \in Relation
      BY <1>2, <2>2, Bounds DEF Relation
    <3> QED
      BY <1>2, <1>6, <2>2, <3>1 DEF Justified
  <2> QED
    BY <2>1, <2>2
<1>8. /\ board' \in [Slice -> Leaf \cup {NoLeaf}] /\ board'[at + 1] = y
      /\ \A j \in Slice \ {at + 1} : board'[j] = board[j]
  BY <1>2, <1>5, <1>6
<1>9. /\ \A j \in 1 .. at : j \in Slice \ {at + 1}
      /\ \A j \in 1 .. (at + 1) : j \in 1 .. at \/ j = at + 1
      /\ \A j \in 1 .. at : j \in 1 .. (at + 1)
      /\ \A j \in 1 .. at : j = at \/ (j \in 1 .. (at - 1) /\ j + 1 \in 1 .. at)
      /\ at + 1 \in 1 .. (at + 1)
  BY <1>2, Bounds DEF Slice
<1>10. /\ \A j \in 1 .. (at + 1) : board'[j] \in Leaf /\ board'[j] \in in.valid[j]
       /\ \A j \in 1 .. at : <<board'[j], board'[j + 1]>> \in in.gate[j]
  <2>1. ASSUME NEW j \in 1 .. (at + 1)
        PROVE  board'[j] \in Leaf /\ board'[j] \in in.valid[j]
    BY <1>3, <1>6, <1>7, <1>8, <1>9, <2>1
  <2>2. ASSUME NEW j \in 1 .. at
        PROVE  <<board'[j], board'[j + 1]>> \in in.gate[j]
    <3>1. board'[j] = board[j]
      BY <1>8, <1>9, <2>2
    <3>2. CASE j = at
      BY <1>6, <1>8, <3>1, <3>2
    <3>3. CASE j \in 1 .. (at - 1) /\ j + 1 \in 1 .. at
      BY <1>3, <1>8, <1>9, <3>1, <3>3
    <3> QED
      BY <1>9, <2>2, <3>2, <3>3
  <2> QED
    BY <2>1, <2>2
<1>11. found <=> \E j \in 1 .. (at + 1) : board'[j] \in in.recent[j]
  BY <1>3, <1>8, <1>9
<1>12. found \in BOOLEAN
  BY <1>2
<1>13. seen' = found
  BY <1>5
<1>14. CASE at < N - 1
  <2>1. at' = at + 1 /\ phase' = phase /\ result' = result
    BY <1>5, <1>14
  <2>2. at + 1 \in Relation /\ (at + 1) - 1 = at
    BY <1>2, <1>14, Bounds DEF Relation
  <2>3. Typed'
    BY <1>1, <1>2, <1>3, <1>8, <1>12, <1>13, <2>1, <2>2 DEF Typed
  <2>7. todo' = {}
    BY <1>1, <1>3
  <2>4. seen' = (\E j \in 1 .. (at + 1) : board'[j] \in in.recent[j])
    BY <1>11, <1>12, <1>13
  <2>5. board'[at + 1] \in IF found THEN suffix[at + 1].valid ELSE suffix[at + 1].recent
    BY <1>6, <1>8
  <2>6. FollowInv'
    <3>1. /\ \A j \in 1 .. at' : board'[j] \in Leaf /\ board'[j] \in in'.valid[j]
          /\ \A j \in 1 .. (at' - 1) : <<board'[j], board'[j + 1]>> \in in'.gate[j]
      BY <1>1, <1>10, <2>1, <2>2
    <3>2. seen' = (\E j \in 1 .. at' : board'[j] \in in'.recent[j])
      BY <1>1, <2>1, <2>4, Zenon
    <3>3. board'[at'] \in IF seen' THEN suffix'[at'].valid ELSE suffix'[at'].recent
      BY <1>1, <1>13, <2>1, <2>5
    <3> QED
      BY <2>7, <3>1, <3>2, <3>3, Zenon DEF FollowInv
  <2> QED
    BY <1>1, <1>2, <2>1, <2>3, <2>6 DEF IInv, LeftInv, RightInv, Justified, ResultInv, Completions, Rows
<1>15. CASE ~(at < N - 1)
  <2>1. at = N - 1 /\ at + 1 = N
    BY <1>2, <1>15, Bounds
  <2>2. phase' = "done" /\ at' = at /\ result' = "completion"
    BY <1>5, <1>7, <1>15, <2>1
  <2>3. board' \in Completions(in)
    <3>1. Slice = 1 .. (at + 1) /\ Relation = 1 .. at
      BY <2>1 DEF Slice, Relation
    <3>2. board' \in [Slice -> Leaf]
      BY <1>8, <1>10, <3>1
    <3>3. \E j \in Slice : board'[j] \in in.recent[j]
      BY <1>7, <1>11, <2>1, <3>1
    <3> QED
      BY <1>10, <3>1, <3>2, <3>3 DEF Completions, Rows, Row
  <2>4. Typed'
    BY <1>1, <1>2, <1>8, <1>12, <1>13, <2>2 DEF Typed
  <2> QED
    BY <1>1, <1>2, <2>2, <2>3, <2>4 DEF IInv, LeftInv, RightInv, Justified, FollowInv, ResultInv, Completions, Rows
<1> QED
  BY <1>14, <1>15

-----------------------------------------------------------------------------
LEMMA InvNext == IInv /\ [Next]_vars => IInv'
<1> SUFFICES ASSUME IInv, [Next]_vars PROVE IInv'
  OBVIOUS
<1>1. CASE UNCHANGED vars
  BY <1>1 DEF vars, IInv, Typed, LeftInv, RightInv, Justified, FollowInv, ResultInv,
              Carried, Marked, Recent, Completions, Rows
<1>2. CASE Next
  BY <1>2, LeftVisitKeeps, RightVisitKeeps, LeftDoneKeeps, ScannedKeeps, RightDoneKeeps,
     FirstKeeps, FollowKeeps DEF Next
<1> QED
  BY <1>1, <1>2

\* The tags on the way of every completion, and the way that every tag promises.
THEOREM Invariance == Spec => []IInv
  BY InitInv, InvNext, PTL DEF Spec

\* A completion is reported exactly when the row holds one.
THEOREM DetectionCorrect == Spec => []DetectionExact
<1>1. IInv => DetectionExact
  BY DEF IInv, ResultInv, DetectionExact
<1> QED
  BY <1>1, Invariance, PTL

\* The reconstruction throws nothing, and its board completes the pattern.
THEOREM BoardCorrect == Spec => []BoardCompletes
<1>1. IInv => BoardCompletes
  BY DEF IInv, ResultInv, BoardCompletes
<1> QED
  BY <1>1, Invariance, PTL
=============================================================================
