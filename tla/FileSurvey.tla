------------------------------ MODULE FileSurvey ------------------------------
(***************************************************************************)
(* The survey of the tests (see Sound in module TestProgram) that a walk   *)
(* through their steps finds, from the first to the last: each entry is    *)
(* taken along to every place the calls may lead to.  Nothing here has to  *)
(* be right: whether what is found is Sound is checked by itself.          *)
(* TLC only: the operators are RECURSIVE.                                  *)
(***************************************************************************)
EXTENDS TestProgram

LOCAL To(i, entry, given, failed) ==
    [pc |-> i,
     entry |-> [var |-> entry.var, file |-> entry.file, late |-> entry.late,
                given |-> given, pending |-> failed]]

\* What passing over call i leads to.  The decision it was passed over for is kept
\* where it tells that a variable is still open.
LOCAL Past(r, steps, i, flags, e) ==
    LET s == steps[i]
        closes == CASE s.op = "close"  -> {s.h}
                    [] s.op = "delete" -> {s.loc}
                    [] OTHER           -> Given(s)
        learnt(lit) == IF e.var \in closes THEN {Opposite(lit)} ELSE {} IN
    IF Never(r, s, flags) THEN {To(i + 1, e, e.given, e.pending)}
    ELSE {To(i + 1, e, e.given \cup learnt(lit), e.pending) : lit \in Decisions(s) \ e.given}

\* What making it leads to.
LOCAL Through(steps, i, e) ==
    LET s == steps[i]
        given == e.given \cup Decisions(s) IN
    (IF e.var \in Given(s) \/ (s.op = "close" /\ e.var = s.h) THEN {}
     ELSE {To(way.pc, e, Lasting(s, e.given), way.pending) :
           way \in Outcomes(steps, i, e.pending)})
    \cup (IF s.op = "close" /\ e.var = s.h /\ MayFail(s)
          THEN {To(DivertedFrom(steps, i), Entry(e.var, e.file, TRUE), given,
                   e.pending \cup Remembered(s))}
          ELSE {})
    \cup (IF s.op \in {"new", "find", "commit"} /\ e.var = s.loc
          THEN {To(OnwardFrom(steps, i, e.pending), Entry(s.h, e.file, FALSE), given, e.pending)}
          ELSE {})

LOCAL Opens(steps, i) ==
    LET s == steps[i] IN
    IF s.op \notin {"create", "open"} THEN {}
    ELSE {To(OnwardFrom(steps, i, failed), Entry(s.h, s.loc, FALSE), Decisions(s), failed) :
          failed \in Memories(steps)}

\* The same of the files that exist.
LOCAL Creates(steps, i) ==
    LET s == steps[i] IN
    IF s.op # "create" THEN {}
    ELSE {To(OnwardFrom(steps, i, failed), Entry(s.loc, NoFile, FALSE), Decisions(s), failed) :
          failed \in Memories(steps)}

LOCAL Stays(steps, i, e) ==
    LET s == steps[i] IN
    IF s.op = "delete" /\ e.var = s.loc THEN {}
    ELSE {To(way.pc, e, Lasting(s, e.given), way.pending) :
          way \in Outcomes(steps, i, e.pending)}

\* The moves of the entries at place i: of what may be open, or of what may exist.
LOCAL Moves(r, steps, i, flags, kind, here) ==
    UNION {Past(r, steps, i, flags, e) : e \in here}
    \cup IF Never(r, steps[i], flags) THEN {}
         ELSE IF kind = "open"
         THEN Opens(steps, i) \cup UNION {Through(steps, i, e) : e \in Possible(here, steps[i])}
         ELSE Creates(steps, i) \cup UNION {Stays(steps, i, e) : e \in Possible(here, steps[i])}

\* One step of the walk: the entries that have come to place i move on.
LOCAL Step(r, steps, i, flags, kind, walk) ==
    LET here == {m.entry : m \in {x \in walk.moves : x.pc = i}} IN
    [found |-> Append(walk.found, here),
     moves |-> {x \in walk.moves : x.pc > i}
               \cup IF i \in DOMAIN steps THEN Moves(r, steps, i, flags, kind, here) ELSE {}]

\* From place lo to place hi, by halves: the depth of the recursion is small.  Bound
\* in a set, one half is evaluated before the other starts.
RECURSIVE Walk(_, _, _, _, _, _, _)
Walk(r, steps, flags, kind, lo, hi, walk) ==
    IF lo = hi THEN Step(r, steps, lo, flags, kind, walk)
    ELSE LET mid == (lo + hi) \div 2 IN
         CHOOSE w \in {Walk(r, steps, flags, kind, mid + 1, hi, half) :
                       half \in {Walk(r, steps, flags, kind, lo, mid, walk)}} : TRUE

\* The tests from test t on, which starts with some entries.
RECURSIVE SurveyFrom(_, _, _, _, _, _)
SurveyFrom(r, tests, flags, kind, t, entries) ==
    IF t > Len(tests) THEN << >>
    ELSE LET steps == tests[t]
             start == [found |-> << >>, moves |-> {To(1, e, e.given, {}) : e \in entries}]
             found == Walk(r, steps, flags, kind, 1, Len(steps) + 1, start).found IN
         <<found>> \o SurveyFrom(r, tests, flags, kind, t + 1, found[Len(found)])

Survey(tests, mpi_size, flags) ==
    [r \in 0..mpi_size-1 |-> SurveyFrom(r, tests, flags, "open", 1, {})]
Standing(tests, flags) == SurveyFrom(Main, tests, flags, "standing", 1, {})

\* A group of tests begins.
Beginning == chosen = {} /\ \A r \in Ranks : test[r] = 1 /\ pc[r] = 1

(* Every test closes the files it opens, on each of its ways, before the    *)
(* variable of the handle is filled again or its function returns: what the *)
(* steps tell without running them, for every connector and every number of *)
(* failing calls.                                                           *)
TestsReleaseFiles ==
    Beginning =>
        \A tests \in {Suite[group].tests}, n \in {Suite[group].mpi_size} :
        \A survey \in {Survey(tests, n, vol_cap_flags_g)} :
            Sound(survey, tests, n, vol_cap_flags_g)

(* Every file a serial program creates is removed, on each of its ways,    *)
(* when no handle is open on it: what the steps tell, as above.            *)
TestsRemoveFiles ==
    Beginning /\ Suite[group].mpi_size = 1 =>
        \A tests \in {Suite[group].tests} :
        \A open \in {Survey(tests, 1, vol_cap_flags_g)[Main]} :
        \A standing \in {Standing(tests, vol_cap_flags_g)} :
            Tidy(standing, open, tests, vol_cap_flags_g)
=============================================================================
