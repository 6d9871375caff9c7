------------------------------ MODULE TestSteps ------------------------------
(***************************************************************************)
(* The vocabulary the HDF5 test programs are written down in.  A test is   *)
(* the sequence of the calls it makes on identifiers (hid_t variables,     *)
(* called by their name in the source) and on files; arithmetic, buffers   *)
(* and messages are left out, and neighbouring calls that only use         *)
(* identifiers are one step.                                               *)
(*                                                                         *)
(* A step is a record:                                                     *)
(*   op     what the call does to identifiers and files                    *)
(*   h      the identifier it obtains, closes or transfers through         *)
(*   loc    the file or the identifier it works on                         *)
(*   uses   identifiers that must be open besides                          *)
(*   comm   the ranks the call is made on together                         *)
(*   route  what the program does when the call fails                      *)
(*   when   the conditions it is made under                                *)
(*   needs  the capability flags it is made under                          *)
(*   ends   the conditions whose life ends with it                         *)
(***************************************************************************)
EXTENDS Naturals, Sequences, FiniteSetsExt, SequencesExt

LOCAL Step(op, h, loc, uses) ==
    [op |-> op, h |-> h, loc |-> loc, uses |-> uses, comm |-> "world",
     route |-> "check", when |-> {}, needs |-> {}, ends |-> {}]

-----------------------------------------------------------------------------
(* The calls. *)

\* H5Fcreate: the file exists, empty, and h is a handle on it.
Create(h, file, uses) == Step("create", h, file, uses)

\* H5Fopen.
OpenFile(h, file, uses) == Step("open", h, file, uses)

\* H5Dcreate2, H5Gcreate2, H5Acreate2, ...: an object in the file of loc.
New(h, loc, uses) == Step("new", h, loc, uses)

\* H5Dopen2, H5Gopen2, H5Aopen, H5Oopen, H5Ropen_object, H5Freopen, ...
Open(h, loc, uses) == Step("find", h, loc, uses)

\* H5Screate_simple, H5Tcopy, H5Pcreate, H5Dget_space, ...: an identifier of
\* the library that belongs to no file.
Make(h, uses) == Step("make", h, "", uses)

\* H5Tcommit2: the type h becomes an object of the file of loc.
Commit(h, loc, uses) == Step("commit", h, loc, uses)

\* H5Dclose, H5Sclose, H5Fclose, ...
Close(h) == Step("close", h, "", {})

\* H5Dwrite, H5Sselect_hyperslab, ...: calls that need uses to be open.
Use(uses) == Step("use", "", "", uses)

\* Calls that every rank makes together on h: H5Dset_extent, H5Awrite, ...
Together(call, h, uses) == Step("together", h, call, uses)

\* H5Dwrite and H5Dread with a collective transfer property list.
Transfer(dset, uses) == Together("transfer", dset, uses)

\* MPI_Barrier, MPI_Bcast, MPI_Allreduce, ...
Sync(call) == Step("sync", "", call, {})

\* H5Fdelete.
Delete(file) == Step("delete", "", file, {})

-----------------------------------------------------------------------------
(* How a call is made. *)

LOCAL All(s, Change(_)) == [i \in DOMAIN s |-> Change(s[i])]

\* The result is not looked at.
Unchecked(s) == [s EXCEPT !.route = "ignore"]

\* The call is made by the rank alone (a file opened without MPI-IO), or on the
\* ranks of the same parity (a communicator made by MPI_Comm_split).
Alone(s) == [s EXCEPT !.comm = "self"]
Split(s) == [s EXCEPT !.comm = "parity"]

\* if (c) { s }, and if (!c) { s }.  "main", "odd" and "second" are conditions
\* on the rank; any other is chosen once per test.
When(c, s) == All(s, LAMBDA x : [x EXCEPT !.when = @ \cup {<<c, TRUE>>}])
Unless(c, s) == All(s, LAMBDA x : [x EXCEPT !.when = @ \cup {<<c, FALSE>>}])

\* The steps s are made only if the call succeeds; a failure is not reported.
IfMade(call, s) == <<[call EXCEPT !.route = "skip"]>> \o s \o <<Step("resume", "", "", {})>>

\* A loop that opens and closes: its second round meets what the first left.
\* Nested loops, and the same calls written out several times, are also one Twice.
Twice(s) == s \o s

\* A loop whose rounds differ in c: a round without it, then a round with it.
LOCAL Settled(c, b, s) ==
    All(SelectSeq(s, LAMBDA x : <<c, ~b>> \notin x.when),
        LAMBDA x : [x EXCEPT !.when = @ \ {<<c, b>>}])
BothWays(c, s) == Settled(c, FALSE, s) \o Settled(c, TRUE, s)

\* The rest of a test after if (!(vol_cap_flags_g & caps)) { ...; return; }.
Needs(caps, s) == All(s, LAMBDA x : [x EXCEPT !.needs = @ \cup caps])

\* The variables a sequence of calls assigns.
Assigned(s) ==
    {x.h : x \in {y \in ToSet(s) : y.op \in {"create", "open", "new", "find", "make"}}}

\* The end of a function: its variables are gone, except those it returns, and
\* so are its conditions, except those on the environment.
Environment == {"default driver", "direct driver", "family driver"}
Returning(out, s) ==
    Append(s, [Step("leave", "", "", Assigned(s) \ out) EXCEPT
                  !.ends = {lit[1] : lit \in UNION {x.when : x \in ToSet(s)}} \ Environment])
Test(s) == Returning({}, s)
-----------------------------------------------------------------------------
(* The tests of vol_test_parallel, where a call that fails is reported and *)
(* the test leaves what it is in.                                          *)

LOCAL Leaving(route, s) ==
    All(s, LAMBDA x : IF x.route = "check" THEN [x EXCEPT !.route = route] ELSE x)

\* MPI_Allreduce, under operator, of the failures remembered in s.
LOCAL Reduced(s, operator, route) ==
    Append(Leaving("op", s), [Step("consensus", "", operator, {}) EXCEPT !.route = route])

\* BEGIN_INDEPENDENT_OP { s } END_INDEPENDENT_OP: when s has failed on a rank
\* every rank goes to the error label, without a further report.
Independent(s) == Reduced(s, "MPI_LOR", "mute")

\* The reduction of a part: the ranks report the failure of s and leave the part.
ReducedInPart(s, operator) == Reduced(s, operator, "part")

\* PART_BEGIN { s } PART_END, and BEGIN_MULTIPART { s } END_MULTIPART.
Part(s) == Append(Leaving("part", s), Step("partend", "", "", {}))
Multipart(s) == Append(s, Step("multiend", "", "", {}))

\* A test with the handles closed after its error label.
Attempt(s, handles) ==
    Test(Leaving("error", s)
         \o <<Step("passed", "", "", {}), Step("error", "", "", {})>>
         \o [i \in DOMAIN handles |-> Unchecked(Close(handles[i]))])
=============================================================================
