-------------------------- MODULE SolverRunProofs --------------------------
(***************************************************************************)
(* The results of a run, for every command line, search, number of parts   *)
(* and number of signals and kills: final results are the undisturbed ones *)
(* and statuses are backed by checkpoints; a part ends after one row; and  *)
(* an extension keeps its word on Ctrl-C.                                  *)
(***************************************************************************)
EXTENDS SolverRun, TLAPS

Solvers == [height: Nat, rows: Nat, pending: BOOLEAN, completion: BOOLEAN, exhausted: BOOLEAN,
            saved: Nat \cup {None}, capped: BOOLEAN, reason: Reasons \cup {None}]

\* Row h of search n holds a completion: its own, or at height 0 that of the source.
Completes(n, h) == h # space[n].end /\ (h \in space[n].ends \/ (h = 0 /\ opt.marked))

\* What a checkpoint of search n at height h holds, whoever saves it.
Contents(n, h) == [exhausted |-> h = space[n].end, completion |-> Completes(n, h)]

\* Row h of search n ends it.
Ends(n, h) == \/ h = space[n].end
              \/ h \in space[n].ends /\ opt.haltOnEnds
              \/ opt.halt # None /\ h >= opt.halt

\* No earlier row than h does.
Reachable(n, h) == \A g \in 1 .. (h - 1) : ~Ends(n, g)

Typed ==
  /\ opt \in Options
  /\ space \in [Names -> Spaces]
  /\ pc \in {"none", "construct", "open", "top", "sweep", "decide", "finish", "report"}
  /\ pc # "none" => name \in Names
  /\ solver \in Solvers

FilesInv ==
  \A f \in DOMAIN files :
    /\ f \in Names \X Nat
    /\ files[f] = Contents(f[1], f[2])
    /\ Reachable(f[1], f[2])
    /\ f[2] = 0 => ~opt.pending

Reasoned ==
  /\ solver.reason = "exhausted" => solver.height = space[name].end
  /\ solver.reason = "completion" =>
       /\ opt.haltOnEnds
       /\ solver.height # space[name].end /\ solver.height \in space[name].ends
  /\ solver.reason = "halt" =>
       /\ solver.height # space[name].end
       /\ ~(opt.haltOnEnds /\ solver.height \in space[name].ends)
       /\ opt.halt # None /\ solver.height >= opt.halt /\ solver.height # 0
  /\ solver.pending => solver.reason = "interrupted"

RowInv ==
  /\ Reachable(name, solver.height)
  /\ solver.saved # None => <<name, solver.saved>> \in DOMAIN files
  /\ solver.pending <=> (solver.height = 0 /\ opt.pending)
  /\ pc = "decide" => solver.height # 0
  /\ pc # "sweep" =>
       [exhausted |-> solver.exhausted, completion |-> solver.completion] = Contents(name, solver.height)
  /\ pc \in {"top", "sweep", "decide"} => ~solver.exhausted
  /\ pc \in {"top", "sweep"} => ~Ends(name, solver.height)
  /\ pc = "sweep" => ~solver.completion
  /\ pc \in {"finish", "report"} => Reasoned

PartInv ==
  /\ pc \in {"open", "top", "sweep"} =>
       solver.height = 0 /\ solver.rows = 0 /\ solver.pending /\ solver.saved = None
  /\ pc = "decide" => solver.height = 1 /\ solver.rows = 1 /\ ~solver.pending /\ solver.saved = None
  /\ pc \in {"finish", "report"} /\ solver.reason # "interrupted" =>
       solver.height = 1 /\ ~solver.pending
  /\ pc = "report" /\ solver.reason # "interrupted" => solver.saved = 1

StatusInv(k) ==
  /\ k \in Names
  /\ [exhausted |-> status[k].exhausted, completion |-> status[k].completion]
       = Contents(k, status[k].height)
  /\ status[k].checkpoint # None =>
       status[k].checkpoint = <<k, status[k].height>> /\ status[k].checkpoint \in DOMAIN files
  /\ opt.parts = 0 /\ status[k].reason \in {"exhausted", "completion", "halt"} =>
       <<status[k].height, status[k].reason>> = Final(k)
  /\ opt.parts > 0 /\ status[k].exit = 0 =>
       status[k].height = 1 /\ status[k].checkpoint = <<k, 1>>

IInv ==
  /\ Typed
  /\ FilesInv
  /\ pc \notin {"none", "construct"} => RowInv /\ (opt.parts > 0 => PartInv)
  /\ \A k \in DOMAIN status : StatusInv(k)

Fixed == opt' = opt /\ space' = space

-----------------------------------------------------------------------------
LEMMA OptionFacts ==
  ASSUME Typed
  PROVE  /\ opt.haltOnEnds \in BOOLEAN /\ opt.halt \in Nat \cup {None}
         /\ opt.parts \in Nat /\ opt.pending \in BOOLEAN /\ opt.marked \in BOOLEAN
         /\ opt.marked \/ opt.halt = 0 => opt.pending
         /\ opt.parts > 0 => opt.save = "final" /\ opt.halt = None /\ opt.pending
         /\ None \notin Nat /\ Names \subseteq Nat
  BY SolverRunAssumption DEF Typed, Names

LEMMA SpaceFacts ==
  ASSUME Typed, NEW n \in Names
  PROVE  /\ space[n].end \in Nat \ {0} /\ 0 \notin space[n].ends
         /\ Ends(n, 0) => opt.halt = 0
<1>1. space[n] \in Spaces
  BY DEF Typed
<1>2. space[n].end \in 1 .. MaxRows /\ space[n].ends \subseteq 1 .. (MaxRows - 1)
  BY <1>1 DEF Spaces
<1>3. MaxRows \in Nat
  BY SolverRunAssumption
<1>4. opt.halt \in Nat \cup {None}
  BY OptionFacts
<1> QED
  BY <1>2, <1>3, <1>4 DEF Ends

\* What does not depend on the process is kept by every step that keeps the search.
LEMMA FixedFacts ==
  ASSUME Fixed
  PROVE  /\ Names' = Names /\ First' = First
         /\ \A n, h : Completes(n, h)' = Completes(n, h)
         /\ \A n, h : Contents(n, h)' = Contents(n, h)
         /\ \A n, h : Ends(n, h)' = Ends(n, h)
         /\ \A n, h : Reachable(n, h)' = Reachable(n, h)
         /\ \A n : Final(n)' = Final(n)
  BY DEF Fixed, Names, First, Completes, Contents, Ends, Reachable, Final

\* Final picks the row at which a run without disturbance ends.
LEMMA FinalRow ==
  ASSUME Typed, NEW n \in Names, NEW h \in Nat \ {0}, Ends(n, h), Reachable(n, h)
  PROVE  Final(n) = <<h, IF h = space[n].end THEN "exhausted"
                         ELSE IF h \in space[n].ends /\ opt.haltOnEnds THEN "completion" ELSE "halt">>
<1> DEFINE E(g) == Ends(n, g)
           P(l) == l \in 1 .. space[n].end /\ E(l) /\ \A g \in 1 .. (l - 1) : ~E(g)
           last == CHOOSE l \in 1 .. space[n].end : E(l) /\ \A g \in 1 .. (l - 1) : ~E(g)
<1>1. space[n].end \in Nat \ {0} /\ E(space[n].end)
  BY SpaceFacts DEF Ends
<1>2. \A g \in 1 .. (h - 1) : ~E(g)
  BY DEF Reachable
<1>3. h <= space[n].end
  <2>1. ~(space[n].end \in 1 .. (h - 1))
    BY <1>1, <1>2
  <2> QED
    BY <1>1, <2>1
<1>4. P(h)
  BY <1>1, <1>2, <1>3
<1>5. P(last)
  BY <1>4
<1>6. last = h
  <2>1. last \in Nat \ {0}
    BY <1>1, <1>5
  <2>2. ~(last < h)
    BY <1>2, <1>5, <2>1
  <2>3. ~(h < last)
    BY <1>4, <1>5, <2>1
  <2> QED
    BY <2>1, <2>2, <2>3
<1>7. Final(n) = <<last, IF last = space[n].end THEN "exhausted"
                         ELSE IF last \in space[n].ends /\ opt.haltOnEnds THEN "completion" ELSE "halt">>
  BY DEF Final, Ends
<1> QED
  BY <1>6, <1>7

LEMMA InitInv == Init => IInv
<1> SUFFICES ASSUME Init PROVE IInv
  OBVIOUS
<1>1. solver \in Solvers
  BY DEF Init, Fresh, Solvers
<1> QED
  BY <1>1 DEF Init, IInv, Typed, FilesInv

\* Statuses stay backed while they and the files they name are left alone.
LEMMA StatusKept ==
  ASSUME IInv, Fixed, status' = status, DOMAIN files \subseteq DOMAIN files'
  PROVE  \A k \in DOMAIN status' : StatusInv(k)'
<1> SUFFICES ASSUME NEW k \in DOMAIN status PROVE StatusInv(k)'
  OBVIOUS
<1>1. StatusInv(k)
  BY DEF IInv
<1>2. Names' = Names /\ Final(k)' = Final(k) /\ opt' = opt
      /\ Contents(k, status[k].height)' = Contents(k, status[k].height)
  BY FixedFacts DEF Fixed, Completes, Contents
<1> QED
  BY <1>1, <1>2 DEF StatusInv

LEMMA FilesKept ==
  ASSUME IInv, Fixed, files' = files
  PROVE  FilesInv'
<1> SUFFICES ASSUME NEW f \in DOMAIN files
             PROVE  /\ f \in (Names \X Nat)'
                    /\ files[f] = Contents(f[1], f[2])'
                    /\ Reachable(f[1], f[2])'
                    /\ f[2] = 0 => ~opt.pending
  BY DEF FilesInv, Fixed
<1> QED
  BY FixedFacts DEF IInv, FilesInv, Fixed, Completes, Contents, Reachable, Ends

\* save_checkpoint keeps the files and gives this row's.
LEMMA SavedKept ==
  ASSUME IInv, Fixed, files' = Saved, pc \notin {"none", "construct", "sweep"},
         ~solver.pending
  PROVE  /\ FilesInv'
         /\ DOMAIN files \subseteq DOMAIN files'
         /\ <<name, solver.height>> \in DOMAIN files'
<1> DEFINE here == <<name, solver.height>>
<1>1. DOMAIN files' = DOMAIN files \cup {here}
  BY DEF Saved
<1>2. here \in Names \X Nat
  BY DEF IInv, Typed, Solvers
<1>3. /\ files'[here] = Contents(name, solver.height) /\ Reachable(name, solver.height)
      /\ solver.height = 0 => ~opt.pending
  BY DEF Saved, IInv, RowInv
<1>4. \A f \in DOMAIN files' : /\ f \in Names \X Nat
                               /\ files'[f] = Contents(f[1], f[2])
                               /\ Reachable(f[1], f[2])
                               /\ f[2] = 0 => ~opt.pending
  <2> SUFFICES ASSUME NEW f \in DOMAIN files'
               PROVE  /\ f \in Names \X Nat
                      /\ files'[f] = Contents(f[1], f[2])
                      /\ Reachable(f[1], f[2])
                      /\ f[2] = 0 => ~opt.pending
    OBVIOUS
  <2>1. CASE f = here
    BY <1>2, <1>3, <2>1
  <2>2. CASE f # here
    <3>1. f \in DOMAIN files /\ files'[f] = files[f]
      BY <1>1, <2>2 DEF Saved
    <3> QED
      BY <3>1 DEF IInv, FilesInv
  <2> QED
    BY <2>1, <2>2
<1>5. FilesInv'
  BY <1>4, FixedFacts DEF FilesInv, Completes, Contents, Reachable, Ends, Fixed
<1> QED
  BY <1>1, <1>5

LEMMA StartKeeps == ASSUME IInv, Start PROVE IInv'
<1>1. Fixed /\ files' = files /\ status' = status /\ pc' = "construct" /\ name' = First /\ solver' = Fresh
  BY DEF Start, Fixed
<1>2. First \in Names
  BY OptionFacts DEF IInv, First, Names
<1>3. Fresh \in Solvers
  BY DEF Fresh, Solvers
<1>4. Typed'
  BY <1>1, <1>2, <1>3, FixedFacts DEF IInv, Typed, Fixed
<1> QED
  BY <1>1, <1>4, FilesKept, StatusKept DEF IInv

LEMMA ConstructKeeps == ASSUME IInv, Construct PROVE IInv'
<1>1. Fixed /\ files' = files /\ status' = status /\ pc' = "open" /\ name' = name /\ pc = "construct"
  BY DEF Construct, Fixed
<1>2. Typed /\ name \in Names
  BY <1>1 DEF IInv, Typed
<1>3. space[name].end \in Nat \ {0} /\ 0 \notin space[name].ends
  BY <1>2, SpaceFacts
<1>4. /\ opt.parts \in Nat /\ opt.pending \in BOOLEAN /\ opt.marked \in BOOLEAN
      /\ opt.parts > 0 => opt.pending
      /\ opt.marked => opt.pending
      /\ None \notin Nat
  BY <1>2, OptionFacts
<1>5. CASE solver' = [Fresh EXCEPT !.pending = opt.pending, !.completion = opt.marked,
                                   !.capped = solver.capped]
  <2>1. solver' \in Solvers
    BY <1>2, <1>4, <1>5 DEF Fresh, Solvers, Typed
  <2>2. Typed'
    BY <1>1, <1>2, <2>1, FixedFacts DEF Typed, Fixed
  <2>3. /\ solver'.height = 0 /\ solver'.saved = None /\ solver'.exhausted = FALSE
        /\ solver'.completion = opt.marked /\ solver'.rows = 0 /\ solver'.pending = opt.pending
    BY <1>5 DEF Fresh
  <2>4. Contents(name, 0) = [exhausted |-> FALSE, completion |-> opt.marked]
    <3>1. (0 = space[name].end) = FALSE /\ Completes(name, 0) = opt.marked
      BY <1>3, <1>4 DEF Completes
    <3> QED
      BY <3>1, Zenon DEF Contents
  <2>5. Reachable(name, 0)
    BY DEF Reachable
  <2>6. Contents(name, 0)' = Contents(name, 0) /\ Reachable(name, 0)'
    BY <1>1, <2>5, FixedFacts DEF Completes, Contents, Reachable, Ends, Fixed
  <2>7. RowInv'
    <3>1. Contents(name, solver.height)' = Contents(name, 0) /\ Reachable(name, solver.height)'
      BY <1>1, <2>3, <2>6 DEF Completes, Contents, Reachable, Ends
    <3> QED
      BY <1>1, <1>4, <2>3, <2>4, <3>1 DEF RowInv, Fixed
  <2>8. opt.parts > 0 => PartInv'
    BY <1>1, <1>4, <2>3 DEF PartInv
  <2> QED
    BY <1>1, <2>2, <2>7, <2>8, FilesKept, StatusKept DEF IInv, Fixed
<1>6. ASSUME NEW f \in DOMAIN files, opt.parts = 0,
             solver' = [Fresh EXCEPT !.height = f[2], !.exhausted = files[f].exhausted,
                                     !.completion = files[f].completion]
      PROVE  IInv'
  <2>1. f \in Names \X Nat /\ files[f] = Contents(f[1], f[2]) /\ Reachable(f[1], f[2])
       /\ (f[2] = 0 => ~opt.pending)
    BY DEF IInv, FilesInv
  <2>2. f[1] = name
    BY <1>2, <1>6, <2>1 DEF Names
  <2>3. f[2] \in Nat
    BY <2>1
  <2>4. files[f].exhausted \in BOOLEAN /\ files[f].completion \in BOOLEAN
    BY <2>1 DEF Completes, Contents
  <2>5. solver' \in Solvers
    BY <1>6, <2>3, <2>4 DEF Fresh, Solvers
  <2>6. Typed'
    BY <1>1, <1>2, <2>5, FixedFacts DEF Typed, Fixed
  <2>7. solver'.height = f[2] /\ solver'.saved = None /\ solver'.pending = FALSE
        /\ [exhausted |-> solver'.exhausted, completion |-> solver'.completion] = Contents(name, f[2])
    BY <1>6, <2>1, <2>2 DEF Fresh, Completes, Contents
  <2>8. Reachable(name, f[2])
    BY <2>1, <2>2
  <2>9. RowInv'
    BY <1>1, <2>1, <2>7, <2>8 DEF RowInv, Completes, Contents, Reachable, Ends, Fixed
  <2> QED
    BY <1>1, <1>6, <2>6, <2>9, FilesKept, StatusKept DEF IInv, Fixed
<1> QED
  BY <1>5, <1>6 DEF Construct

\* A step that only changes the solver, and where the process is.
LEMMA SolverStep ==
  ASSUME IInv, Fixed, status' = status, name' = name,
         files' = files \/ (files' = Saved /\ pc # "sweep" /\ ~solver.pending),
         pc \notin {"none", "construct"}, pc' \in {"top", "sweep", "decide", "finish", "report"},
         solver' \in Solvers, RowInv', opt.parts > 0 => PartInv'
  PROVE  IInv'
<1>1. name \in Names
  BY DEF IInv, Typed
<1>2. Typed'
  BY <1>1, FixedFacts DEF IInv, Typed, Fixed
<1>3. FilesInv' /\ DOMAIN files \subseteq DOMAIN files'
  BY FilesKept, SavedKept
<1>4. \A k \in DOMAIN status' : StatusInv(k)'
  BY <1>3, StatusKept
<1> QED
  BY <1>2, <1>3, <1>4 DEF IInv, Fixed

\* The solver goes on to the end of run() with a reason for the row it has.
LEMMA EndingKeeps ==
  ASSUME IInv, Fixed, files' = files, status' = status, name' = name,
         pc \in {"open", "top", "decide"}, NEW reason \in Reasons, Ending(reason),
         reason = "exhausted" => solver.exhausted,
         reason = "completion" => ~solver.exhausted /\ solver.completion /\ opt.haltOnEnds,
         reason = "halt" => /\ ~solver.exhausted /\ ~(solver.completion /\ opt.haltOnEnds)
                            /\ Halted /\ solver.height # 0,
         reason # "interrupted" => ~solver.pending,
         opt.parts > 0 /\ reason # "interrupted" => pc = "decide"
  PROVE  IInv'
<1>1. Typed /\ RowInv /\ (opt.parts > 0 => PartInv) /\ solver \in Solvers
  BY DEF IInv, Typed
<1>2. solver' = [solver EXCEPT !.reason = reason] /\ pc' = "finish"
  BY DEF Ending
<1>3. /\ solver' \in Solvers
      /\ solver'.height = solver.height /\ solver'.saved = solver.saved /\ solver'.pending = solver.pending
      /\ solver'.exhausted = solver.exhausted /\ solver'.completion = solver.completion
      /\ solver'.reason = reason
  BY <1>1, <1>2 DEF Solvers
<1>4. [exhausted |-> solver.exhausted, completion |-> solver.completion] = Contents(name, solver.height)
  BY <1>1 DEF RowInv
<1>5. /\ solver.exhausted = (solver.height = space[name].end)
      /\ solver.completion = Completes(name, solver.height)
  BY <1>4 DEF Contents
<1>6. Reasoned'
  <2>1. solver.exhausted \in BOOLEAN /\ solver.completion \in BOOLEAN
    BY <1>1 DEF Solvers
  <2>2. name \in Names /\ opt.pending \in BOOLEAN /\ (opt.marked => opt.pending)
    BY <1>1, OptionFacts DEF IInv, Typed
  <2>3. solver.pending <=> (solver.height = 0 /\ opt.pending)
    BY <1>1 DEF RowInv
  <2>4. reason = "completion" => solver.height \in space[name].ends
    BY <1>5, <2>2, <2>3 DEF Completes
  <2> QED
    BY <1>3, <1>5, <2>1, <2>4 DEF Reasoned, Completes, Halted, Fixed
<1>7. RowInv'
  <2>1. Contents(name, solver.height)' = Contents(name, solver.height) /\ Reachable(name, solver.height)'
    BY <1>1, <1>3 DEF RowInv, Completes, Contents, Reachable, Ends, Fixed
  <2> QED
    BY <1>1, <1>2, <1>3, <1>4, <1>6, <2>1 DEF RowInv, Fixed
<1>8. opt.parts > 0 => PartInv'
  BY <1>1, <1>2, <1>3 DEF PartInv
<1> QED
  BY <1>2, <1>3, <1>7, <1>8, SolverStep

LEMMA OpenKeeps == ASSUME IInv, Open PROVE IInv'
<1>1. Fixed /\ files' = files /\ status' = status /\ name' = name /\ pc = "open"
  BY DEF Open, Fixed
<1>2. Typed /\ RowInv /\ (opt.parts > 0 => PartInv) /\ solver \in Solvers
  BY <1>1 DEF IInv, Typed
<1>3. name \in Names
  BY <1>1, <1>2 DEF Typed
<1>4. /\ solver.height \in Nat /\ solver.exhausted \in BOOLEAN /\ solver.completion \in BOOLEAN
      /\ opt.halt \in Nat \cup {None} /\ opt.haltOnEnds \in BOOLEAN
  BY <1>2, OptionFacts DEF Solvers
<1>5. /\ solver.exhausted = (solver.height = space[name].end)
      /\ solver.completion = Completes(name, solver.height)
  BY <1>1, <1>2 DEF RowInv, Contents
<1>6. /\ solver.pending <=> (solver.height = 0 /\ opt.pending)
      /\ space[name].end # 0 /\ (opt.halt = 0 => opt.pending)
      /\ solver.exhausted \/ ~Refused
  BY <1>1, <1>2, <1>3, OptionFacts, SpaceFacts DEF RowInv, Open
<1>7. PICK capped \in {solver.capped, TRUE} :
        IF OpenReason(capped) # None THEN Ending(OpenReason(capped))
        ELSE solver' = [solver EXCEPT !.capped = capped] /\ pc' = "top"
  BY DEF Open
<1>8. CASE OpenReason(capped) # None
  <2> DEFINE reason == OpenReason(capped)
  <2>1. reason \in {"exhausted", "completion", "halt", "interrupted", "memory_cap"}
    BY <1>8 DEF OpenReason
  <2>2. /\ reason = "exhausted" => solver.exhausted
        /\ reason = "completion" => ~solver.exhausted /\ solver.completion /\ opt.haltOnEnds
        /\ reason = "halt" => ~solver.exhausted /\ ~(solver.completion /\ opt.haltOnEnds) /\ Halted
        /\ reason = "memory_cap" => ~solver.pending
    BY <1>8 DEF OpenReason
  <2>3. reason \in {"completion", "halt"} => ~Refused /\ ~solver.pending
    BY <1>6, <2>2 DEF Refused
  <2>4. reason = "halt" => solver.height # 0
    BY <1>4, <1>6, <2>2, <2>3 DEF Halted
  <2>5. reason # "interrupted" => ~solver.pending
    <3>1. solver.exhausted => ~solver.pending
      BY <1>5, <1>6
    <3> HIDE DEF reason
    <3> QED
      BY <2>1, <2>2, <2>3, <3>1
  <2>6. opt.parts > 0 => reason = "interrupted"
    <3>1. SUFFICES ASSUME opt.parts > 0 PROVE reason = "interrupted"
      OBVIOUS
    <3>2. solver.height = 0 /\ solver.pending
      BY <1>1, <1>2, <3>1 DEF PartInv
    <3> QED
      BY <2>5, <3>2
  <2>7. Ending(reason)
    BY <1>7, <1>8
  <2> HIDE DEF reason
  <2> QED
    BY <1>1, <2>1, <2>2, <2>4, <2>5, <2>6, <2>7, EndingKeeps DEF Reasons
<1>9. CASE OpenReason(capped) = None
  <2>1. ~solver.exhausted /\ ~(solver.completion /\ opt.haltOnEnds) /\ ~Halted
    BY <1>9, SolverRunAssumption DEF OpenReason, Reasons
  <2>2. solver' = [solver EXCEPT !.capped = capped] /\ pc' = "top"
    BY <1>7, <1>9
  <2>3. capped \in BOOLEAN
    BY <1>2 DEF Solvers
  <2>4. /\ solver' \in Solvers
        /\ solver'.height = solver.height /\ solver'.saved = solver.saved /\ solver'.pending = solver.pending
        /\ solver'.rows = solver.rows
        /\ solver'.exhausted = solver.exhausted /\ solver'.completion = solver.completion
    BY <1>2, <2>2, <2>3 DEF Solvers
  <2>5. ~Ends(name, solver.height)
    BY <1>4, <1>5, <2>1 DEF Completes, Ends, Halted
  <2>6. RowInv'
    BY <1>1, <1>2, <2>1, <2>2, <2>4, <2>5 DEF RowInv, Completes, Contents, Reachable, Ends, Fixed
  <2>7. opt.parts > 0 => PartInv'
    BY <1>1, <1>2, <2>2, <2>4 DEF PartInv
  <2> QED
    BY <1>1, <2>2, <2>4, <2>6, <2>7, SolverStep
<1> QED
  BY <1>8, <1>9

LEMMA TopKeeps == ASSUME IInv, Top PROVE IInv'
<1>1. Fixed /\ files' = files /\ status' = status /\ name' = name /\ pc = "top"
  BY DEF Top, Fixed
<1>2. Typed /\ RowInv /\ (opt.parts > 0 => PartInv) /\ solver \in Solvers
  BY <1>1 DEF IInv, Typed
<1>3. CASE Ending("interrupted")
  BY <1>1, <1>3, EndingKeeps DEF Reasons
<1>4. CASE solver' = [solver EXCEPT !.completion = FALSE] /\ pc' = "sweep"
  <2>1. /\ solver' \in Solvers
        /\ solver'.height = solver.height /\ solver'.saved = solver.saved /\ solver'.pending = solver.pending
        /\ solver'.rows = solver.rows /\ solver'.exhausted = solver.exhausted /\ ~solver'.completion
    BY <1>2, <1>4 DEF Solvers
  <2>2. RowInv'
    BY <1>1, <1>2, <1>4, <2>1 DEF RowInv, Completes, Contents, Reachable, Ends, Fixed
  <2>3. opt.parts > 0 => PartInv'
    BY <1>1, <1>2, <1>4, <2>1 DEF PartInv
  <2> QED
    BY <1>1, <1>4, <2>1, <2>2, <2>3, SolverStep
<1> QED
  BY <1>3, <1>4 DEF Top

LEMMA SweepKeeps == ASSUME IInv, Sweep PROVE IInv'
<1>1. Fixed /\ files' = files /\ status' = status /\ name' = name /\ pc = "sweep"
  BY DEF Sweep, Fixed
<1>2. Typed /\ RowInv /\ (opt.parts > 0 => PartInv) /\ solver \in Solvers
  BY <1>1 DEF IInv, Typed
<1> DEFINE h == solver.height + 1
           swept == [solver EXCEPT !.height = h, !.pending = FALSE]
<1>3. solver.height \in Nat /\ h \in Nat \ {0} /\ solver.rows \in Nat /\ solver.exhausted = FALSE
      /\ solver.completion = FALSE
  BY <1>1, <1>2 DEF Solvers, RowInv
<1>4. /\ swept \in Solvers /\ swept.height = h /\ swept.saved = solver.saved /\ swept.pending = FALSE
      /\ swept.rows = solver.rows /\ swept.exhausted = FALSE /\ swept.completion = FALSE
  BY <1>2, <1>3 DEF Solvers
<1>5. Reachable(name, h)
  <2>1. ~Ends(name, solver.height) /\ Reachable(name, solver.height)
    BY <1>1, <1>2 DEF RowInv
  <2>2. \A g \in 1 .. (h - 1) : g = solver.height \/ g \in 1 .. (solver.height - 1)
    BY <1>3
  <2> QED
    BY <2>1, <2>2 DEF Reachable
<1> HIDE DEF swept
<1>6. CASE h = space[name].end
  <2>1. solver' = [swept EXCEPT !.exhausted = TRUE, !.reason = "exhausted"] /\ pc' = "finish"
    BY <1>6 DEF Sweep, swept
  <2>2. /\ solver' \in Solvers /\ solver'.height = h /\ solver'.saved = solver.saved /\ solver'.pending = FALSE
        /\ solver'.exhausted = TRUE /\ solver'.completion = FALSE /\ solver'.reason = "exhausted"
    BY <1>4, <2>1 DEF Solvers, Reasons
  <2>3. Contents(name, h) = [exhausted |-> TRUE, completion |-> FALSE]
    BY <1>6 DEF Completes, Contents
  <2> HIDE DEF h
  <2>4. RowInv'
    <3>1. Reachable(name, solver.height)'
      BY <1>1, <1>5, <2>2 DEF Reachable, Ends, Fixed
    <3>2. Contents(name, solver.height)' = Contents(name, h)
      BY <1>1, <2>2 DEF Completes, Contents, Fixed
    <3>3. Reasoned'
      BY <1>1, <1>6, <2>2 DEF Reasoned, Fixed
    <3> QED
      BY <1>1, <1>2, <1>3, <2>1, <2>2, <2>3, <3>1, <3>2, <3>3 DEF RowInv, Fixed
  <2>5. opt.parts > 0 => PartInv'
    BY <1>1, <1>2, <1>3, <2>1, <2>2 DEF PartInv, h
  <2> QED
    BY <1>1, <2>1, <2>2, <2>4, <2>5, SolverStep
<1>7. CASE h # space[name].end
  <2> DEFINE b == h \in space[name].ends
  <2>6. b \in BOOLEAN
    OBVIOUS
  <2>7. Contents(name, h) = [exhausted |-> FALSE, completion |-> b]
    <3>1. (h = space[name].end) = FALSE /\ Completes(name, h) = b
      BY <1>3, <1>7 DEF Completes
    <3> QED
      BY <3>1, Zenon DEF Contents
  <2>1. solver' = [swept EXCEPT !.rows = @ + 1, !.completion = b] /\ pc' = "decide"
    BY <1>7 DEF Sweep, swept
  <2> HIDE DEF b, h
  <2> DEFINE rows == solver.rows + 1
  <2>8. rows \in Nat
    BY <1>3
  <2>9. solver' = [swept EXCEPT !.rows = rows, !.completion = b]
    BY <1>4, <2>1
  <2> HIDE DEF rows
  <2>3. /\ solver' \in Solvers /\ solver'.height = h /\ solver'.saved = solver.saved /\ solver'.pending = FALSE
        /\ solver'.rows = rows
        /\ solver'.exhausted = FALSE /\ solver'.completion = b
    BY <1>4, <2>6, <2>8, <2>9 DEF Solvers
  <2>2. /\ solver' \in Solvers /\ solver'.height = h /\ solver'.saved = solver.saved /\ solver'.pending = FALSE
        /\ solver'.rows = solver.rows + 1
        /\ solver'.exhausted = FALSE /\ solver'.completion = b
    BY <2>3 DEF rows
  <2>4. RowInv'
    <3>1. Reachable(name, solver.height)'
      BY <1>1, <1>5, <2>2 DEF Reachable, Ends, Fixed
    <3>2. Contents(name, solver.height)' = Contents(name, h)
      BY <1>1, <2>2 DEF Completes, Contents, Fixed
    <3> QED
      BY <1>1, <1>2, <1>3, <2>1, <2>2, <2>7, <3>1, <3>2 DEF RowInv, Fixed
  <2>5. opt.parts > 0 => PartInv'
    BY <1>1, <1>2, <1>3, <2>1, <2>2 DEF PartInv, h
  <2> QED
    BY <1>1, <2>1, <2>2, <2>4, <2>5, SolverStep
<1> QED
  BY <1>6, <1>7

LEMMA DecideKeeps == ASSUME IInv, Decide PROVE IInv'
<1>1. Fixed /\ status' = status /\ name' = name /\ pc = "decide"
  BY DEF Decide, Fixed
<1>2. Typed /\ RowInv /\ (opt.parts > 0 => PartInv) /\ solver \in Solvers
  BY <1>1 DEF IInv, Typed
<1>3. /\ solver.height \in Nat /\ ~solver.exhausted /\ solver.completion \in BOOLEAN
      /\ opt.halt \in Nat \cup {None} /\ opt.haltOnEnds \in BOOLEAN
  BY <1>1, <1>2, OptionFacts DEF Solvers, RowInv
<1>4. /\ solver.exhausted = (solver.height = space[name].end)
      /\ solver.completion = Completes(name, solver.height)
      /\ solver.height # 0 /\ ~solver.pending
  BY <1>1, <1>2 DEF RowInv, Contents
<1>5. PICK capped \in {solver.capped, TRUE} :
        IF RowReason(capped) # None
        THEN Ending(RowReason(capped)) /\ UNCHANGED files
        ELSE /\ pc' = "top"
             /\ IF opt.save = "every" /\ solver.height % SaveEvery = 0
                THEN /\ files' = Saved
                     /\ solver' = [solver EXCEPT !.capped = capped, !.saved = solver.height]
                ELSE /\ solver' = [solver EXCEPT !.capped = capped]
                     /\ UNCHANGED files
  BY DEF Decide
<1>6. CASE RowReason(capped) # None
  <2> DEFINE reason == RowReason(capped)
  <2>1. reason \in Reasons
    BY <1>6 DEF RowReason, Reasons
  <2>2. /\ reason = "exhausted" => solver.exhausted
        /\ reason = "completion" => ~solver.exhausted /\ solver.completion /\ opt.haltOnEnds
        /\ reason = "halt" => ~solver.exhausted /\ ~(solver.completion /\ opt.haltOnEnds) /\ Halted
    BY <1>3, <1>6 DEF RowReason
  <2>3. Ending(reason) /\ files' = files
    BY <1>5, <1>6
  <2> HIDE DEF reason
  <2> QED
    BY <1>1, <1>4, <2>1, <2>2, <2>3, EndingKeeps
<1>7. CASE RowReason(capped) = None
  <2>1. ~(solver.completion /\ opt.haltOnEnds) /\ ~Halted /\ ~(opt.parts > 0 /\ solver.rows >= 1)
    BY <1>7, SolverRunAssumption DEF RowReason, Reasons
  <2>2. ~(opt.parts > 0)
    BY <1>1, <1>2, <2>1 DEF PartInv
  <2>3. capped \in BOOLEAN
    BY <1>2 DEF Solvers
  <2>4. pc' = "top" /\ \/ files' = Saved /\ solver' = [solver EXCEPT !.capped = capped, !.saved = solver.height]
                       \/ files' = files /\ solver' = [solver EXCEPT !.capped = capped]
    BY <1>5, <1>7
  <2>5. /\ solver' \in Solvers
        /\ solver'.height = solver.height /\ solver'.exhausted = solver.exhausted
        /\ solver'.completion = solver.completion /\ solver'.pending = solver.pending
        /\ \/ files' = Saved /\ solver'.saved = solver.height
           \/ files' = files /\ solver'.saved = solver.saved
    BY <1>2, <1>3, <2>3, <2>4 DEF Solvers
  <2>6. ~Ends(name, solver.height)
    BY <1>3, <1>4, <2>1 DEF Completes, Ends, Halted
  <2>7. solver'.saved # None => <<name, solver'.saved>> \in DOMAIN files'
    BY <1>1, <1>2, <1>4, <2>5, SavedKept DEF RowInv
  <2>8. RowInv'
    <3>1. Reachable(name, solver.height)' /\ ~Ends(name, solver.height)'
      BY <1>1, <1>2, <2>5, <2>6 DEF RowInv, Reachable, Ends, Fixed
    <3>2. Contents(name, solver.height)' = Contents(name, solver.height)
      BY <1>1, <2>5 DEF Completes, Contents, Fixed
    <3> QED
      BY <1>1, <1>2, <1>3, <2>4, <2>5, <2>7, <3>1, <3>2 DEF RowInv, Fixed
  <2> QED
    BY <1>1, <1>4, <2>2, <2>4, <2>5, <2>8, SolverStep
<1> QED
  BY <1>6, <1>7

LEMMA FinishKeeps == ASSUME IInv, Finish PROVE IInv'
<1>1. Fixed /\ status' = status /\ name' = name /\ pc = "finish" /\ pc' = "report"
  BY DEF Finish, Fixed
<1>2. Typed /\ RowInv /\ (opt.parts > 0 => PartInv) /\ solver \in Solvers
  BY <1>1 DEF IInv, Typed
<1>3. /\ solver' \in Solvers
      /\ solver'.height = solver.height /\ solver'.exhausted = solver.exhausted
      /\ solver'.completion = solver.completion /\ solver'.reason = solver.reason
      /\ solver'.pending = solver.pending
      /\ \/ files' = Saved /\ solver'.saved = solver.height /\ Saves
         \/ files' = files /\ solver'.saved = solver.saved /\ ~(Saves /\ solver.saved # solver.height)
  BY <1>2 DEF Finish, Solvers
<1>4. Saves => ~solver.pending
  BY <1>1, <1>2 DEF RowInv, Reasoned, Saves
<1>5. solver'.saved # None => <<name, solver'.saved>> \in DOMAIN files'
  BY <1>1, <1>2, <1>3, <1>4, SavedKept DEF RowInv
<1>6. RowInv'
  <2>1. Reachable(name, solver.height)'
    BY <1>1, <1>2, <1>3 DEF RowInv, Reachable, Ends, Fixed
  <2>2. Contents(name, solver.height)' = Contents(name, solver.height)
    BY <1>1, <1>3 DEF Completes, Contents, Fixed
  <2>3. Reasoned'
    BY <1>1, <1>2, <1>3 DEF RowInv, Reasoned, Fixed
  <2> QED
    BY <1>1, <1>2, <1>3, <1>5, <2>1, <2>2, <2>3 DEF RowInv, Fixed
<1>7. opt.parts > 0 => PartInv'
  <2> SUFFICES ASSUME opt.parts > 0 PROVE PartInv'
    OBVIOUS
  <2>1. opt.save = "final"
    BY <1>2, OptionFacts
  <2>2. ASSUME solver.reason # "interrupted" PROVE solver'.height = 1 /\ ~solver'.pending /\ solver'.saved = 1
    <3>1. solver.height = 1 /\ ~solver.pending
      BY <1>1, <1>2, <2>2 DEF PartInv
    <3>2. Saves
      BY <2>1, <2>2 DEF Saves
    <3> QED
      BY <1>3, <3>1, <3>2
  <2> QED
    BY <1>1, <1>3, <2>2 DEF PartInv
<1> QED
  BY <1>1, <1>3, <1>6, <1>7, <1>4, SolverStep

LEMMA ReturnKeeps == ASSUME IInv, Return PROVE IInv'
<1>1. Fixed /\ files' = files /\ pc = "report" /\ Report
  BY DEF Return, Fixed
<1>2. Typed /\ RowInv /\ (opt.parts > 0 => PartInv) /\ solver \in Solvers /\ name \in Names
  BY <1>1 DEF IInv, Typed
<1> DEFINE s == [reason |-> solver.reason, height |-> solver.height,
                 checkpoint |-> IF solver.saved = solver.height THEN <<name, solver.height>> ELSE None,
                 exit |-> IF solver.reason = "interrupted" THEN 130 ELSE 0,
                 exhausted |-> solver.exhausted, completion |-> solver.completion]
<1>3. status' = [k \in DOMAIN status \cup {name} |-> IF k = name THEN s ELSE status[k]]
  BY <1>1 DEF Report
<1>4. Typed'
  <2>1. CASE name < opt.parts /\ solver.reason # "interrupted"
    <3>1. pc' = "construct" /\ name' = name + 1 /\ solver' = [Fresh EXCEPT !.capped = solver.capped]
      BY <2>1 DEF Return
    <3>2. solver' \in Solvers
      BY <1>2, <3>1 DEF Fresh, Solvers
    <3>3. name + 1 \in Names
      BY <1>2, <2>1, OptionFacts DEF Names
    <3> QED
      BY <1>1, <1>2, <3>1, <3>2, <3>3, FixedFacts DEF Typed, Fixed
  <2>2. CASE ~(name < opt.parts /\ solver.reason # "interrupted")
    BY <1>1, <1>2, <2>2, FixedFacts DEF Return, Typed, Fixed
  <2> QED
    BY <2>1, <2>2
<1>5. pc' \in {"none", "construct"}
  BY DEF Return
<1>6. solver.height \in Nat
  BY <1>2 DEF Solvers
<1>7. /\ [exhausted |-> solver.exhausted, completion |-> solver.completion] = Contents(name, solver.height)
      /\ Reachable(name, solver.height) /\ Reasoned
      /\ solver.saved # None => <<name, solver.saved>> \in DOMAIN files
  BY <1>1, <1>2 DEF RowInv
<1>8. solver.saved = solver.height => <<name, solver.height>> \in DOMAIN files
  BY <1>6, <1>7, SolverRunAssumption
<1>9. opt.parts > 0 /\ solver.reason # "interrupted" => solver.height = 1 /\ solver.saved = 1
  BY <1>1, <1>2 DEF PartInv
<1>10. ASSUME solver.reason \in {"exhausted", "completion", "halt"}
       PROVE  Final(name) = <<solver.height, solver.reason>>
  <2>1. space[name].end \in Nat \ {0} /\ 0 \notin space[name].ends
    BY <1>2, SpaceFacts
  <2>2. opt.halt \in Nat \cup {None}
    BY <1>2, OptionFacts
  <2>3. Ends(name, solver.height) /\ solver.height \in Nat \ {0}
    BY <1>6, <1>7, <1>10, <2>1, <2>2 DEF Reasoned, Ends
  <2>4. Final(name) = <<solver.height, IF solver.height = space[name].end THEN "exhausted"
                         ELSE IF solver.height \in space[name].ends /\ opt.haltOnEnds THEN "completion"
                         ELSE "halt">>
    BY <1>2, <1>7, <2>3, FinalRow
  <2> QED
    BY <1>7, <1>10, <2>4 DEF Reasoned
<1>11. ASSUME NEW k \in DOMAIN status' PROVE StatusInv(k)'
  <2>1. Final(k)' = Final(k) /\ Names' = Names /\ opt' = opt
    BY <1>1, FixedFacts DEF Fixed
  <2>2. \A h : Contents(k, h)' = Contents(k, h)
    BY <1>1, FixedFacts
  <2>3. Contents(k, status[k].height)' = Contents(k, status'[k].height)
    BY <1>1 DEF Completes, Contents, Fixed
  <2>4. CASE k = name
    <3>1. status'[k] = s
      BY <1>3, <2>4
    <3>2. Contents(k, s.height) = [exhausted |-> s.exhausted, completion |-> s.completion]
      BY <1>7, <2>4
    <3>3. s.checkpoint # None => s.checkpoint = <<k, s.height>> /\ s.checkpoint \in DOMAIN files
      BY <1>8, <2>4
    <3>4. s.reason \in {"exhausted", "completion", "halt"} => <<s.height, s.reason>> = Final(k)
      BY <1>10, <2>4
    <3>5. opt.parts > 0 /\ s.exit = 0 => s.height = 1 /\ s.checkpoint = <<k, 1>>
      BY <1>9, <2>4
    <3> HIDE DEF s
    <3> QED
      BY <1>1, <1>2, <2>1, <2>3, <2>4, <3>1, <3>2, <3>3, <3>4, <3>5 DEF StatusInv
  <2>5. CASE k # name
    <3>1. k \in DOMAIN status /\ status'[k] = status[k]
      BY <1>3, <2>5
    <3>2. StatusInv(k)
      BY <3>1 DEF IInv
    <3> QED
      BY <1>1, <2>1, <2>3, <3>1, <3>2 DEF StatusInv
  <2> QED
    BY <2>4, <2>5
<1> QED
  BY <1>1, <1>4, <1>5, <1>11, FilesKept DEF IInv

\* A signal or the end of the process changes nothing that a solver has.
LEMMA TroubleKeeps ==
  ASSUME IInv, Fixed, UNCHANGED <<files, status, name, solver>>, pc' \in {pc, "none"}
  PROVE  IInv'
<1>1. Typed'
  BY FixedFacts DEF IInv, Typed, Fixed
<1>2. \A k \in DOMAIN status' : StatusInv(k)'
  BY StatusKept
<1>3. pc' \notin {"none", "construct"} => RowInv'
  <2> SUFFICES ASSUME pc' \notin {"none", "construct"} PROVE RowInv'
    OBVIOUS
  <2>1. pc' = pc /\ RowInv
    BY DEF IInv
  <2> QED
    BY <2>1 DEF RowInv, Reasoned, Reachable, Ends, Completes, Contents, Fixed
<1>4. pc' \notin {"none", "construct"} /\ opt.parts > 0 => PartInv'
  BY DEF IInv, PartInv
<1> QED
  BY <1>1, <1>2, <1>3, <1>4, FilesKept DEF IInv, Fixed

LEMMA InvNext == IInv /\ [Next]_vars => IInv'
<1> SUFFICES ASSUME IInv, [Next]_vars PROVE IInv'
  OBVIOUS
<1>1. CASE Signal
  BY <1>1, TroubleKeeps DEF Signal, Fixed
<1>2. CASE Kill
  BY <1>2, TroubleKeeps DEF Kill, Fixed
<1>3. CASE Refuse
  BY <1>3, TroubleKeeps DEF Refuse, Fixed
<1>4. CASE UNCHANGED vars
  BY <1>4, TroubleKeeps DEF vars, Fixed
<1> QED
  BY <1>1, <1>2, <1>3, <1>4, StartKeeps, ConstructKeeps, OpenKeeps, TopKeeps, SweepKeeps, DecideKeeps,
     FinishKeeps, ReturnKeeps DEF Next

\* The inductive invariant: what the files hold follows from the search and the height,
\* no row behind a file or a solver ends the search, and a part is at its one row.
THEOREM Invariance == Spec => []IInv
  BY InitInv, InvNext, PTL DEF Spec

\* Whatever stops and resumes an extension, its final result is the undisturbed one, for
\* every search, halt position and way of saving.
THEOREM OutcomeCorrect == Spec => []OutcomeStable
<1>1. IInv => OutcomeStable
  BY DEF IInv, StatusInv, OutcomeStable
<1> QED
  BY Invariance, <1>1, PTL

\* The checkpoint that a status names holds the row that the status describes.
THEOREM BackingCorrect == Spec => []StatusBacked
<1>1. IInv => StatusBacked
  <2> SUFFICES ASSUME IInv, NEW k \in DOMAIN status, status[k].checkpoint # None
               PROVE  /\ status[k].checkpoint = <<k, status[k].height>>
                      /\ status[k].checkpoint \in DOMAIN files
                      /\ files[status[k].checkpoint] = [exhausted |-> status[k].exhausted,
                                                       completion |-> status[k].completion]
    BY DEF StatusBacked
  <2>1. StatusInv(k)
    BY DEF IInv
  <2>2. status[k].checkpoint = <<k, status[k].height>> /\ status[k].checkpoint \in DOMAIN files
    BY <2>1 DEF StatusInv
  <2>3. files[status[k].checkpoint] = Contents(k, status[k].height)
    BY <2>2 DEF IInv, FilesInv
  <2> QED
    BY <2>1, <2>2, <2>3 DEF StatusInv
<1> QED
  BY Invariance, <1>1, PTL

\* A part that reports success is one row beyond its source, saved, for any number of parts.
THEOREM PartsCorrect == Spec => []PartsOneRow
<1>1. IInv => PartsOneRow
  BY DEF IInv, StatusInv, PartsOneRow
<1> QED
  BY Invariance, <1>1, PTL

-----------------------------------------------------------------------------
\* In a process with a single Solver nothing clears the flag behind an announcement.
Announced ==
  opt.parts = 0 =>
    /\ pc = "construct" => flag = None /\ ~told
    /\ pc # "none" /\ told => flag = TRUE

LEMMA AnnouncedNext == IInv /\ Announced /\ [Next]_vars => Announced'
<1> SUFFICES ASSUME IInv, Announced, [Next]_vars, opt'.parts = 0
             PROVE  /\ pc' = "construct" => flag' = None /\ ~told'
                    /\ pc' # "none" /\ told' => flag' = TRUE
  BY DEF Announced
<1>1. opt' = opt
  BY DEF Next, Start, Construct, Refuse, Open, Top, Sweep, Decide, Finish, Return, Signal, Kill, vars
<1>2. CASE Start
  BY <1>2 DEF Start
<1>3. CASE Construct
  BY <1>1, <1>3 DEF Construct, Announced
<1>4. CASE Open
  BY <1>1, <1>4 DEF Open, Ending, Announced
<1>5. CASE Top
  BY <1>1, <1>5 DEF Top, Ending, Announced
<1>6. CASE Sweep
  BY <1>1, <1>6 DEF Sweep, Announced
<1>7. CASE Decide
  BY <1>1, <1>7 DEF Decide, Ending, Announced
<1>8. CASE Finish
  BY <1>1, <1>8 DEF Finish, Announced
<1>9. CASE Return
  <2>1. pc = "report" /\ name \in Names
    BY <1>9 DEF Return, IInv, Typed
  <2>2. ~(name < opt.parts)
    BY <1>1, <2>1 DEF Names
  <2> QED
    BY <1>9, <2>2 DEF Return
<1>10. CASE Signal
  BY <1>1, <1>10 DEF Signal, Announced
<1>11. CASE Kill
  BY <1>11 DEF Kill
<1>12. CASE Refuse
  BY <1>12 DEF Refuse
<1>13. CASE UNCHANGED vars
  BY <1>1, <1>13 DEF vars, Announced
<1> QED
  BY <1>2, <1>3, <1>4, <1>5, <1>6, <1>7, <1>8, <1>9, <1>10, <1>11, <1>12, <1>13 DEF Next

\* "Will exit after completing the current row" holds of every extension: once the handler
\* has said so, run() begins no other row.
THEOREM InterruptCorrect == Spec => ExtensionInterruptHonoured
<1>1. Init => Announced
  BY DEF Init, Announced
<1>2. Announced /\ [Next]_vars => [opt.parts = 0 /\ pc = "top" /\ pc' = "sweep" => ~told]_vars
  <2> SUFFICES ASSUME Announced, [Next]_vars, opt.parts = 0, pc = "top", pc' = "sweep" PROVE ~told
    OBVIOUS
  <2>1. Top
    BY DEF Next, Start, Construct, Refuse, Open, Sweep, Decide, Finish, Return, Signal, Kill, vars, Ending
  <2>2. flag # TRUE
    BY <2>1 DEF Top, Ending
  <2> QED
    BY <2>2 DEF Announced
<1> QED
  BY Invariance, <1>1, AnnouncedNext, <1>2, PTL DEF Spec, ExtensionInterruptHonoured
=============================================================================
