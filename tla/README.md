# TLA+ models of vol-tests

A verification project kept beside HDFGroup/vol-tests: TLA+ modules translated
from the source, TLC configurations that check them on small instances, and
TLAPS proofs of what holds for every instance.  All paths below are relative to
the repository; "the driver" is `src/driver/h5vl_test_driver.cxx`.

## 1. Inventory

vol-tests runs tests of an HDF5 VOL connector.  Two parts have behaviour of their
own: the driver that supervises processes, and the parallel program that runs and
counts tests on many MPI ranks.  The rest, and nearly all of the lines, are tests:
sequences of calls of the HDF5 library that open and close identifiers, leave files to
each other, skip what a connector cannot do, and go on, or stop, when a call fails.

| component | state it keeps | operations | what is hard | what makes it correct |
|---|---|---|---|---|
| **Test driver** `src/driver/h5vl_test_driver.cxx` | which processes were asked for, line buffers, `mpiError`, `clientPipe`, the two time-outs, the two flags | start server, client helper, client initialiser, client, each waiting for a message; poll client and server; wait, report, kill, delete; the verdict | four children that write, hang, die and fork in any order with the driver's calls; three kinds of time-out; a list of things to stop on every failing path | the verdict is right; nothing it started is left; it ends in a bounded time; it does not kill under a running client |
| **Process library** `src/driver/kwsys/ProcessUNIX.c`, `Process.h.in` | per handle: `State`, `Killed`, `TimeoutExpired`, `ForkPIDs`, `PipesLeft`, `TimeoutTime`; below it: child, pipes, zombie | `New`, `Execute`, `WaitForData`, `WaitForExit`, `Kill`, `Delete` | the child's pipes close in any order with its end; a descendant keeps them open; the process time-out fires at any moment; the caller's calls come in any order | no child is lost or left a zombie; no output of a child that ended by itself is lost; a PID is not used after it was waited for |
| **Parallel harness** `src/vol_test_parallel.c/.h` | per rank: `n_tests_run_g`, `n_tests_passed_g`, `n_tests_failed_g`, `n_tests_skipped_g`, `ind_op_failed` | seed broadcast, six independent operations with an agreement after each, eight groups of tests, reductions of the tallies, exit | a call fails on one rank only and the others are in, or on the way to, a collective call | ranks never wait in different calls; a failure is everybody's; the report and the exit status tell it |
| **Parallel file tests** `src/vol_file_test_parallel.c` | the files, a split communicator | `test_create_file`, `test_open_file`, `test_split_comm_file_access`, `cleanup_files` | half of the ranks use a file and half do not | the two halves meet again, in the same call, with the same verdict |
| **Parallel dataset tests** `src/vol_dataset_test_parallel.c` | container, open identifiers per rank, failures remembered until a reduction | 20 tests, with independent operations and, one of them, parts | ranks without data; rank 0 alone in the file; a failure of one rank; a failure reduced the wrong way | ranks that fail alone leave together; nothing is left open; the file is open in one way at a time |
| **hdf5_test**: serial HDF5 tests `src/hdf5_test/t*.c` | open identifiers (`hid_t` variables), files on disk | over 200 tests in 15 files, each with a cleanup | `CHECK` counts a failure and goes on with an identifier that was not made; tests share file names; a branch not taken for lack of a capability skips the closing too | the tests report failures of the library and none of their own; what they create is closed and removed |
| **hdf5_test framework** `src/hdf5_test/testhdf5.c`, `.h` | `vol_cap_flags_g`, the error count, `HDF5_NOCLEANUP` | check macros, the list of tests, their cleanups | a flag that is read and never set | a test the connector supports is run |
| **hdf5_testpar**: parallel HDF5 tests `src/hdf5_testpar` | per rank as above; communicators | 50-odd tests of `testphdf5`, and `t_bigio`, `t_pshutdown`, `t_shapesame` | split communicators, writers and readers, broadcasts from changing roots; `VRFY` aborts all ranks | all ranks make the same collective calls in the same order; as for hdf5_test |
| Parallel async tests `src/vol_async_test_parallel.c`, serial `src/vol_async_test.c` | event sets | queue operations, `H5ESwait` | order in which queued operations complete and fail | nothing is used before it was waited for |
| Other parallel groups (group, attribute, link, object, misc, datatype) | none | an empty table, one `MPI_Barrier` | nothing | – |
| **Serial harness** `src/vol_test.c/.h` | the container, the flags, the four tallies, `nerrors` | make and remove the container, run groups, print statistics, exit status | counting in multipart tests | tallies add up, status tells failure |
| Test utilities `src/vol_test_util.c` | static recursion depth of the type generator | `create_test_container`, `generate_random_datatype`, `generate_random_dataspace`, `prefix_filename`, `remove_test_file` | error paths of the recursion | the depth stays bounded, a failed build leaks nothing |
| **Serial VOL tests** `src/vol_*_test.c` | open identifiers, files | multipart tests | as for hdf5_test, with parts that fail and go on; a test that counts what all others have left open | as for hdf5_test |
| Rest of kwsys, `src/tools`, CMake | – | – | – | – |

How they interact.  CTest runs the driver, which runs the client (a test
program, possibly under mpiexec) and optional servers as **children**: it sees
their output lines, their end and their exit status and nothing else.  The
driver calls the process library from one thread; a call blocks in `select()`.
The ranks of a parallel program interact by **collective calls** and through the
**files** they open; the tests of one program through the files they leave.  The
driver judges the client by its exit status and by strings in its output
("error", "failed", "FAILED", ...), which is why the exit status and the report of the
parallel harness matter to the driver.

Every component is in `PROJECT.json` with what is and is not modelled, and the
hazards list holds what is hard to test, at its line, with the properties that
would catch it.

## 2. Modules

    KwsysProcess  <---EXTENDS--- TestDriver ---refines---> Supervision
         ^                           ^
    KwsysProcessProofs  <---EXTENDS--- TestDriverProofs  <---EXTENDS--- TestDriverOrderProofs

    ParallelHarness ---refines---> OneProgram
         ^
    ParallelHarnessProofs (EXTENDS)

    TestProgram  <---EXTENDS--- TestProgramProofs
         ^
    FileSurvey (EXTENDS)
         ^
    MCTests ---INSTANCE---> testhdf5 ---INSTANCE---> tfile, th5o, ..., tmisc
       `-----------------> vol_test ----INSTANCE---> vol_file_test
    MCParallelTests -------> testphdf5 -------------> t_file, t_dset, ..., t_coll_md_read
            `--------------> t_bigio, t_pshutdown, t_shapesame, vol_dataset_test_parallel
    the modules of tests extend TestSteps

`MCTests` and `MCParallelTests` extend `FileSurvey`, and with it `TestProgram`, and give
its constants (`Suite` above all) their values for TLC.  `KwsysProcess`, `TestDriver` and
`ParallelHarness` are run as they are, their constants given by the cfg files.

### KwsysProcess: the process library

One record of state per handle, in functions over `Procs`.  `state`, `killed`,
`expired` are the handle's `State`, `Killed` and `TimeoutExpired`; `forkPid` says
that `ForkPIDs[0]` is not 0, `left` is the time to `TimeoutTime` in ticks.  The
operating system's side is `child` (not there, running, or dead in one of three
ways), `reaped` (`waitpid` has collected it), `descendant` (something the child
started holds its output pipes) and `pipe` (lines written and not read; stdout
and stderr are one pipe).  The third pipe of the code, the signal pipe that
becomes readable when the child dies, is the pair `child[p] \in Dead /\
~reaped[p]`; `PipesLeft = 0` is `Eof`.

| code | action |
|---|---|
| `kwsysProcess_Execute` | `ExecuteOK`, `ExecuteFails` |
| `kwsysProcess_WaitForData`, one thing `select()` reports | `ReadLines`, `Reap` (signal pipe, `kwsysProcessDestroy`), `Expire` (process time-out) |
| `kwsysProcess_WaitForExit` returning 1 | `FinishExit`, with `Outcome` for the state it settles on |
| `kwsysProcess_Kill` | `Kill`; `Terminate` is the part `Expire` shares: close, signal the tree, `waitpid` |
| `kwsysProcess_Delete` | `FinishExit` then `Free` |
| the children | `Write`, `Exit`, `DescendantEnds` |

A call that blocks is several actions, one per thing that can happen in it,
because between two of them the children move.  `ProcSpec` allows any legal call
at any time: it is the library under every caller, of which the driver is one.

### TestDriver: H5VLTestDriver::Main

`phase` is where `Main` is: starting `cur`, waiting for `cur`'s message, polling the
client or the server, making the calls of `plan`, or done.  The tail of `Main` (and
of each of its failing returns) is a fixed list of calls, so the model holds it as
data: `Conclusion` for the normal end, `Abandon(p)` when `p` could not be started,
each followed by `CleanProcesses`; `CallWaitForExit`, `CallKill`, `CallDelete` and
`CallReportStatus` consume it in order.  `wait` is what is left of the time-out of the
call `Main` is in; `Tick` advances all clocks and is possible only while the driver
is blocked and nothing it waits for is there (`Stirring`).  `TakeLine`, `NoLine` and
`LineTimesOut` are the three results of `WaitForAndPrintLine`.  `erred` (who wrote
an error line) and `elapsed` are history, for the properties.

`Supervision` is what a driver of this kind promises: every process is launched at
most once, the client (`Lead`) last, and the outcome is given when nothing launched
is live, a pass only if everything was launched and the lead was right.
`TestDriver!Supervises` maps "live" to executed and not collected.

### ParallelHarness: the ranks

`pc` is a function from ranks to points of the program.  The tests are a table,
`Flow`: a point is a call with its communicator (none, the world, the half it was
split to), what it counts (`TESTING`, `PASSED`, `H5_FAILED`) and the next point on
success and on failure; one row stands for one call of the code, in the code's
order.  `LocalCall` moves one rank; `CollectiveCall` moves all members of a
communicator, once all are in that call (`Met`).  Reductions have actions of their
own (`EndIndependentOp`, `SplitAgree`, `ReducePassed`, `ReduceFailed`).  A rank that
waits for others has a `Polling` step, so that ranks that wait for each other show up
as a violation of `Terminates` and not as TLC's deadlock.

`file_basic`, whether the connector supports basic file operations, is chosen in
`Init` and kept.  Which calls may fail is a constant in three parts: alone on one rank
(`LocalFaults`), on all ranks of the communicator at once (`AgreedFaults`), or on
some ranks of a call that completes (`PartialFaults`).  HDF5 calls and the
per-rank helpers are outside this repository or depend on the file system, so
which of them fail together is an assumption and each run says which it makes.

`OneProgram` is what the ranks promise together to whoever reads the report: they are one
program that refuses to start or makes its tests one after the other, each with the same
result on every rank, and in the end says on every rank whether a test has failed.
`ParallelHarness!ActAsOne` maps the test it is in to where rank 0 is, the failures to the
history of the tests each rank counts as failed (`hurt`), and the verdict to status, failed
count and the string the driver looks for.  Within a test ranks may disagree; between tests
they may not.

### TestSteps: what a test is

The test programs are too many lines for an action per call, and too alike: a test is
**data**, the sequence of its calls, and one machine walks through it.  `TestSteps`
is the vocabulary.  A step is a record: what the call does to identifiers and files
(`Create`, `OpenFile`, `New`, `Open`, `Make`, `Commit`, `Close`, `Use`, `Together`,
`Sync`, `Delete`), the identifiers it needs, the ranks it is made on, what the
program does when it fails (`route`), the conditions (`When`, `Unless`) and the
capability flags (`Needs`) it is made under.  Identifiers have the names of their
variables in the source.  Kept are every call that obtains, uses or closes an
identifier and every one that creates, opens or deletes a file, in the code's order,
with every branch and early return around them; left out are values, selections,
buffers, comparisons and messages, so that neighbouring calls that only use
identifiers are one `Use`.  A loop is two rounds (`Twice`, `BothWays`): the second
meets what the first left behind.  Callees are operators of their own, and the end of
a function (`Test`, `Returning`) drops its variables.

The macros of the harness are operators on sequences: `Independent` is
`BEGIN_INDEPENDENT_OP` ... `END_INDEPENDENT_OP`, `Part` and `Multipart` are those of
`vol_test.h`, `Attempt` a test with an `error:` label and what is closed after it.

There is one module per source file, called as the file: `tfile` to `tmisc` for
hdf5_test, `t_file` to `t_shapesame` for hdf5_testpar, `vol_dataset_test_parallel`,
`vol_file_test`.  An
operator of such a module is the function of that name.  `testhdf5`, `testphdf5` and
`vol_test` are the `main` functions, the lists of tests and cleanups.

### TestProgram: the machine

`Suite` gives groups of tests, each with a number of ranks; `Init` chooses a group and
a connector.  Per rank there is `test` and `pc`, the open identifiers `held` (each with
the file it belongs to and the communicator that file was opened on), the files held
through no variable (`lost`) and what a failed call left undone (`missing`); `files` are
those on disk.  A call is `Legal` if the identifiers it uses are open, the file it
opens exists, and the file it creates or deletes is open nowhere (`Busy`).

| code | action |
|---|---|
| a guard on capability flags, on the rank or on a condition is false | `Skip` |
| a condition on the environment or the data is evaluated | `Decide` |
| a call of HDF5 or MPI succeeds; a collective one once all ranks of its communicator are in it | `Make` |
| a call fails because an identifier or a file is not as it has to be | `Fail` |
| a call fails for a reason outside the program | `Break` |
| where a failure leads: `CHECK` counts and goes on, `VRFY` aborts, the error label, the end of a part or of an independent operation | `Divert` |
| `MPI_Allreduce` of the failures (`END_INDEPENDENT_OP`) | `Consensus` |
| the next test | `NextTest` |

`told` and `faults` are history: who has reported a failure, and which calls failed
although they were legal, since the last time nothing was missing or lost.  Two constants
name what is known to be amiss: `LeftOpen`, the files that stay open without a capability,
and `LeftOver`, the files that nothing removes.

### FileSurvey: what the steps tell without being run

`TestProgram` ends with two conditions on the steps of tests alone.  A **survey** says, for
every rank, test and place, which variables may hold which file there, under which
decisions and remembered failures; `Sound` says that it starts each test where the last
one ended and that every call, passed over, made or failed, leads from what may be open
before it to what may be open after it, and fills or gives up no variable that may be
open.  `Tidy` says the same of the files of a serial program that may exist: nothing but
a deletion ends them, the file a call deletes is not open then, and after the last test
none is left.  Both are local: one call at a time, no interleaving, no count of failures.

`FileSurvey` finds such surveys by a walk through the steps (RECURSIVE, hence TLC only);
nothing in it has to be right, because `TestsReleaseFiles` and `TestsRemoveFiles` check
what it found against `Sound` and `Tidy`.  That these are enough is proved (section 4).

## 3. Runs

Twelve runs; distinct states are those of a complete exploration.

| run | cfg | states | what it shows |
|---|---|---|---|
| library | MCKwsysProcess (module KwsysProcess) | 990,990 | `SettledMeansCollected`, `UncollectedIsTracked`, `ExitedMeansDrained` under any legal calls on two handles |
| driver_server | MCDriverServer | 540,138 | client and a server that may fork: `VerdictSound`, `VerdictJustified`, `StrayOnlyWithoutClient`, `NothingLeftRunning`, `NoKillUnderClient` |
| driver_all | MCDriverAll | 968,975 | all four processes, both flags set: `NothingLeftRunning`, `Supervises` |
| driver_terminates | MCDriverTerminates | 451,559 | client (may fork), server, initialiser: `BoundedRun`, and `Terminates` under fairness |
| ranks_agreed | MCRanksAgreed | 2,633 | three ranks, with and without basic file support; one-rank failures at start-up, collective failures everywhere, deletions that fail on some ranks: `CallsMatch`, `NoneStranded`, `FailTogether`, `ReportIsRight`, `ErrorIsCollective`, `UnsupportedRunsNoTest`, `Terminates`, and `ActAsOne`, the refinement of `OneProgram` |
| ranks_local | MCRanksLocal | 16,403 | four ranks; failures on single ranks where the code agrees on them: `Terminates` |
| tests_serial | MCTests | 1,216,320 | hdf5_test, and vol_test with its file tests, any one call failing: `NoFalseAlarm`, `FilesReleased`, `FilesRemoved`; for any failures, `TestsReleaseFiles`, `TestsRemoveFiles` |
| tests_parallel | MCParallelTests | 162,809 | hdf5_testpar's four programs and the dataset tests, a collective call or an independent operation failing: `NoFalseAlarm`, `FilesReleased`, `TestsReleaseFiles`, `OneWayAccess`, `Terminates` |
| driver_stray | MCDriverStray | – | violated: `NoStraySignal` |
| ranks_split | MCRanksSplit | – | violated: `SplitErrorShared` |
| tests_skipped | MCTestsSkipped | – | violated: `SupportedTestsRun` |
| dataset_masked | MCDatasetMasked | – | violated: `FailureHeard` |

What the two runs of tests ask.  `NoFalseAlarm`: whatever the connector lacks, whatever
the conditions are, in whatever order the ranks run, a test reports nothing unless a
call that was right has failed, and a failure does not spoil later tests that start
from order.  A test that closes what it still uses, closes twice, deletes a file that
another rank has open, or counts on a file an earlier test did not leave, violates
it, and most do so only in one branch or one interleaving.  `FilesReleased` looks
at the other side: no variable that holds the last handle of a file is filled again or
goes out of scope, on the failing ways out too.  `FilesRemoved` compares the files of
all tests of a group with the list its cleanup removes.  `TestsReleaseFiles` and
`TestsRemoveFiles`, evaluated where a group begins, are the hypotheses of the theorems that
extend these two to any number of failing calls.  `OneWayAccess` is about rank 0
preparing a file alone.  `Terminates` is the deadlock question: the ranks make the same
collective calls after every failure the code agrees on.

Each property of a passing run has a faulty variant of the code beside the
definition it changes (marked FAULTY), under which the run finds it violated.

### Bounds

- `MaxLines` (1 or 2) and `PipeCap` (1 or 2): a child fills its pipe, blocks, and
  writes again after a read; two lines are what it takes for one read to leave a
  line in the driver's buffer, and for a plain line to follow an error line.
- `Lines`: the driver tells three kinds apart: one with an error string, one with
  the message (or token) it waits for, any other.
- `TimeOut` 2 or 3, `StartWait` 1 or 2, `PollWait` and `ExitWait` 1: the process
  time-out is the longest, as in the code (dart's time-out less 10 s, against
  100 s, 0.1 s and 2 s), and each can run out before, with and after the others.
- `Horizon` caps `elapsed` for `BoundedRun` only: 7 ticks, one more than the six
  (three processes of two ticks) that the property allows.
- `Forking` names the children that may leave a descendant.
- `N`: three ranks make halves of different size, four give each half two ranks.
- `PartialFaults = {"delete"}` in ranks_agreed and ranks_local: the deletion of a file is
  the one collective call after which the code makes the same calls whether it failed or
  not.  With any other call in it `CallsMatch` is violated (see `FaultsAgreed` below).
- `MaxFaults` 0 to 2 in the harness: two failures are what it takes to fail while a
  failure is being handled, or on two ranks.  1 in the runs of tests: one failing call
  at any place, with all that follows from it.
- `LoneFaults`, `AgreedFaults` of the runs of tests: serially any call may fail.
  In parallel a collective call fails on all ranks of its communicator, and an
  independent operation on one rank; any other failure of one rank alone leaves the
  others in a collective call, which the code has no answer to.
- `Connectors`: one with all capabilities, one without the four flags most
  guards in the middle of a test ask for, one with none.  The last is what really runs
  (see finding 3): `AsksConnector = TRUE` in tests_serial shows what the guards are meant
  to do, so that the tests are checked for the day the flags are set.
  tests_parallel has the first alone, so that missing capabilities are met in tests_serial
  only.
- Ranks of the parallel tests: `testphdf5` three (some tests ask for it, and it makes
  split communicators of different size), `t_pshutdown` three, `t_bigio`, `t_shapesame` and the
  dataset tests two, rank 0 and another; their conditions tell no more apart.
- Groups: the tests of one source file share files and run together, in `main`'s order;
  no two groups name the same file, so each runs by itself.
- tests_skipped runs hdf5_test by itself: `vol_test` does ask its connector.
- Two rounds of a loop: a round meets only what the one before it left.

### Fairness

`TestDriver!Fairness`: the driver's thread is scheduled, and time goes on.  Nothing
is assumed of the children: they may hang or write until their budget is used up.
`Terminates` needs the process time-out and no more, which is what the
constructor's comment says it is for.  `ParallelHarness!FairSpec`: every rank keeps
running and MPI completes a collective call all its ranks have entered.
`TestProgram!FairSpec` assumes the same, as weak fairness of `Progress`: some rank that
can move does.  No call has to fail, and a condition may come out either way.

### What the code does and its words do not say

Findings shown by a run:

1. **driver_stray**.  `kwsysProcess_Kill` keeps a collected child's PID; when
   the process time-out has expired inside `WaitForData`, the driver's own Kill on
   the failing path of `StartServer` signals that PID a second time.
2. **ranks_split**.  An even rank whose `create_mpi_fapl` fails goes to the world's
   reduction, the other even ranks to `H5Fcreate`: nobody gets the "collective
   results about whether an error occurred".
3. **tests_skipped**.  `vol_cap_flags_g` of hdf5_test is `H5VL_CAP_FLAG_NONE`
   (`hdf5_test/testhdf5.c:44`) and nothing sets it, as `testphdf5` and the VOL test
   programs do from `H5Pget_vol_cap_flags`.  Every guard on it is false, and what
   it guards is "not supported with this connector", for every connector.
4. **dataset_masked**.  `test_write_dataset_data_verification` sets `op_failed` on rank 0 and
   reduces it with `MPI_LAND`: with two ranks or more the failed write is never heard of,
   and "dataset write on rank 0 failed!" never printed
   (`vol_dataset_test_parallel.c:237`, `:245`).

Differences between code and words that the models keep, without a run:

- "If client has died, we wait for output from the server processess for
  this->ServerExitTimeOut" (`h5vl_test_driver.cxx:659`): the loop makes one more
  call, which returns with the server's next line, and leaves (`:663`).  Later
  lines, error lines too, go unread into `WaitForExit`.
- Failures are reduced with `MPI_MIN` (`vol_test_parallel.c:408`): a test that fails on
  one rank only is reported as "0/n tests did not pass", without "At least".
- The split test counts a failing `H5Fcreate`, `H5Fclose` or `H5Fdelete` as a failed test
  where it happens (`vol_file_test_parallel.c:239`, `:247`, `:255`) and once more after the
  agreement: the even ranks count one test twice.  The minimum over the ranks is right again,
  unless there is only one rank.
- The parallel program exits with 0 after failed tests (`vol_test_parallel.c:445`);
  `CMakeLists.txt:468` lets CTest judge it by its status.

In the tests, met while writing them down:

- `h5_fixname` is applied to a fixed name, which makes `tfile1.h5.h5` (`tfile.c:2684`) and
  `tmisc15.h5.h5` (`tmisc.c:2828`); no cleanup removes them.  `LeftOver` names them.
- `test_get_obj_ids` (`tfile.c:1193`) closes `tfile7.h5` through the identifiers it looks
  up with `H5Fget_obj_ids`, and not at all without `FILE_MORE`; the file cannot be removed
  then.  `LeftOpen` names flag and file.
- `th5o.c:1007` closes `fapl_id` inside the loop that uses it; the rounds that would
  meet the closed list are left out by a `continue` above.
- The loop for even ranks in `independent_group_read` (`t_mdset.c:1056`) runs for a single group only,
  against the comment above it; `t_pshutdown` leaves `shutdown.h5`, as it means to.
- `cleanup_files` (`vol_file_test.c:2498`) removes the files of all tests, also of those
  skipped for lack of a capability, whose files are not there: `H5Fdelete` fails outside
  `H5E_BEGIN_TRY`, and the error stack HDF5 prints then has the word "Error", which the
  driver looks for.  In the model such a call fails without being counted.
- `test_create_file_excl` creates its file with `H5F_ACC_EXCL` and counts on an earlier run
  to have been able to clean up.
- `create_test_container` takes a failed `H5Gcreate2` for success.
- Identifiers that are no files (dataspaces, types, property lists) are left open on
  some ways through tests of `th5s.c`, `trefer.c`, `tfile.c`, `tselect.c`, `tvltypes.c`,
  `tarray.c`, `t_dset.c`, `t_span_tree.c`, `t_mdset.c`, `t_shapesame.c`, and `mspace_id` in three
  read tests of `vol_dataset_test_parallel.c`.  `FilesReleased` is about files only.

Met while modelling, and not given a run of their own: `--allow-server-errors`
("allow server errors in output") excuses the server's status, not its output;
time-outs count from each process's own start, so together they exceed the
dart time-out that `TimeOut` is meant to stay below; `WaitForExit` returns 0, "child
did not terminate", for an exited server whose descendant holds the pipes; two ranks
that fail different tests make "At least n tests passed" too large by one; the
SKIPPED branch of the file tests for a connector without basic file support cannot
be reached, because `create_test_container` fails first and the program exits with an
error (`UnsupportedRunsNoTest` states what happens instead).

## 4. Proofs

All theorems hold for every value of the constants that meets the named
assumptions: time-outs and bounds are naturals, `PipeCap` is positive, the
processes are some of the four and include the client, there is at least one rank,
the tests of `Suite` are sequences of step records.  Further hypotheses (`FaultsAgreed`,
`AllSound`, `AllSerial`, `AllTidy`) stand in the theorems themselves.

**KwsysProcessProofs**.  `LibraryTypes`, `SettledHandlesAreCollected`,
`NoChildIsLost`, `ExitedHandlesAreDrained`.  None of the last three is inductive.
`LibraryInv` adds, per handle (`HandleInv`): a stopped handle's child has been
collected (`Collected`), a handle that executes or has settled has had a child
(`HasChild`), and one that exited was not stopped and nobody can write to its pipe
(`Drained`).  `TerminateCollects` and `FinishCollects` are the two steps where a
child leaves the library's sight.

**TestDriverProofs**.  `DriverTypeCorrect`, `DriverLeavesNothingRunning` and
`PassedTestsPassed`.  `DriverUsesLibrary` shows that every step of the driver is a step
of the library, which carries `LibraryInv` over, by `LibraryKept`.  On top:

- `Control`: where `phase`, `cur`, `plan` and `started` can be together;
- `Cleanup`: at the end of `Main` every handle is freed or has its Delete left in the
  plan; with `LibraryInv` (a freed handle holds no uncollected child) this gives
  `NothingLeftRunning`;
- `Heard` and `Drain`: an error line of the client is in its pipe, in the driver's
  buffer, or in `mpiError`, and after the poll loop there is none left;
- `Results` and `Pass`: a result of 0 was reported for a handle that stays as it was.
  `LaterStays` is the lemma under it: after the poll loop nothing is executed,
  so a dead and collected child stays that way.

`DriverIsACaller` states the same as a refinement: every behaviour of the driver is one
of `ProcSpec`.

**TestDriverOrderProofs**.  `FailedTestsFailed`, `NoStrayOnceStarted`,
`NothingIsKilledUnderTheClient`, `RunIsBounded` and the refinement `DriverSupervises`.
What they share is the order in which `Main` does things, `OrderInv`:

- `Order` (what is started when, and that only processes before `cur` have been) and
  `Ending`: the plan is a suffix of `Conclusion`'s ten calls, and what the calls made so
  far have left behind: whose status is known, who is settled;
- `Told`, `Overheard`, `Judged`: what the settled state of a handle says of its child;
  `mpiError`, the buffers and the pipes hold error lines only of who wrote one; the verdict
  is 1 only for reasons of these kinds;
- `Unstray`: before the end of `Main`, and at its end if the client has been started, no PID
  was used again: the one handle that is killed has been through `WaitForExit`;
- `Bounded`: what has elapsed is at most what the processes have used of their own
  time-outs.  How many have been executed is a cardinality (`CountOneMore`).

`DriverSupervises` maps each step to a launch, an end, the outcome, or a stutter: a process
is launched once because `cur` has passed the earlier ones, the outcome comes when nothing
is live by `NothingLeftRunning`'s invariant, and is a pass only by `VerdictSound`'s.

**ParallelHarnessProofs**.  `HarnessTypeCorrect`, `StartUpErrorsAreCollective`,
`UnsupportedConnectorsRunNoTest` hold whatever fails.  The invariant for the first two is
`TypeOK` with "before the tests nothing has run"; for the third `NoTestInv`, which follows
the refusal of `create_test_container` from rank 0's operation to the agreement that
carries it to the others.  `FlowGoesOn` and `PointsAreThere` are facts about the table
of calls, used by every step of the tests.

`CallsAlwaysMatch`, `RanksAreNeverStranded`, `TestsFailTogether` and `ReportsAreRight` have
a hypothesis, `FaultsAgreed`: no local call of a test fails on one rank alone
(`create_mpi_fapl`, `H5Pclose`), and no collective call but `H5Fdelete` fails on some of its
ranks only.  Start-up operations may fail on any rank, collective calls on all of theirs.
It is what the code needs: with any other call allowed to fail in this way (`fapl` or
`pclose` added to `LocalFaults`, `create`, `open` or `close` to `PartialFaults`) TLC finds
`CallsMatch` violated, and finding 2 is one such behaviour.  None of the four is inductive.
They rest on `Abreast`: each rank has a next collective call, the one it is in or comes to
if nothing fails on the way (`Ahead`), and a next call of all ranks (`WorldAhead`); the
ranks of a half have the same next call, all ranks have the same next world call.
`LocalCallsLeadToTheSameCall`, `HalvesComeBack` and `WorldCallsAreNext` say this of the
table, row by row; what is left is that a collective call then finds its ranks at one
point and takes them to one point (`WorldCallKeepsAbreast`, `HalfCallKeepsAbreast`).  For the
report come `HurtTogether`, a test that some ranks count as failed and others do not is the
split test before its agreement, and `Tallied`, a rank counts a failure just when a test
failed and then has written so; the minimum of the tallies is positive if one is, because by
then all ranks have failed the same tests.

`RanksActAsOne` is the refinement, `FaultsAgreed => (Spec => ActAsOne)`.  Its invariant,
`OneInv`, puts the earlier ones together with `FirstTest` (until the tests begin the first
is the next).  The ranks are before, in or after the tests together (`StagesApart`,
`StagesShared`), so that rank 0 speaks for all; a call of some ranks leaves what is known
of earlier tests alone (`CallIsUnseen`); the ones all ranks end a test with carry
`HurtTogether` over to the failures of `OneProgram` (`TestsAreOne`); and the exit gives the
verdict `ReportInv` has prepared (`VerdictsAreOne`).

**TestProgramProofs**.  `TestProgramTypeCorrect`: the walk keeps its types through any
tests, on any number of ranks, with any connectors and any faults.  The one assumption
is `SuiteAssumption`.  `TypeOK` is inductive, with one lemma per action; what takes an
argument is that a rank's place stays a natural (`FirstOf` chooses the least of a set of
places, which is there by the well-foundedness of the naturals: `MinExists`,
`FirstOfPlaces`, `WaysLeadOn`), and that what a call gives an identifier is a handle
(`HeldTypes`), for the calls of a whole group of ranks at once (`GroupIsThere`).

`SoundTestsReleaseFiles` and `TidyTestsRemoveFiles` carry `FilesReleased` and `FilesRemoved`
from the one failing call of the runs to any number of them, at any places, on one rank alone
or on several, in any order of the ranks.  Their hypotheses are about constants and no
behaviour: that the steps of the tests have a sound survey (`AllSound`) and, for a serial
program (`AllSerial`), a tidy one (`AllTidy`).  TLC evaluates both for every test modelled and
every connector of the runs (`TestsReleaseFiles`, `TestsRemoveFiles`), so that they are not
hollow.

- Neither property is inductive: whether a file is lost when a function returns depends on what
  was open at its first call and on every branch since.  `CourseOK` says what holds of
  the course of a rank whatever the calls do: its place is in its test, no condition is decided
  both ways, it holds variables of the tests only, it remembers what can be remembered.
- `FilesOK` adds `OpenOK`, every handle that is open is foreseen by the survey where the rank is,
  or is `late` and a call to close it has failed (`missing` has its variable), and `LostOK`.
  `HandleIsCarried` is the step: what the survey foresees before a call it foresees after, in
  each of its outcomes.  The hard place is `DecisionsStay`: decisions made by one rank explain
  what another has open, and end when the last rank leaves a function.
- `TidyOK` adds `StandingOK`: every file that exists and is to be removed is foreseen to exist, or
  a call to create or delete it is among those that failed.  `FileCanBeRemoved` joins the two
  surveys: a deletion of a file that exists cannot fail by the program's own fault, because
  what is open is foreseen, and none of that is a handle of this file.

Only model-checked: liveness (`Terminates`), and of the runs of tests `NoFalseAlarm`,
`OneWayAccess`, and `TestsReleaseFiles` and `TestsRemoveFiles`, the theorems' hypotheses: they
evaluate recursive walks over the tables of this commit.  Liveness under fairness and ENABLED
are out of the prover's reach; `NoneStranded` and `BoundedRun` are the safety parts of it and
are proved.  `NoFalseAlarm` would need a survey of everything a call relies on, that is open or
exists on every way to it, where the surveys above follow what may be so on some way;
branches that depend on each other made one that is local too coarse for four groups of
hdf5_test, and as much work as the runs for the others.  `OneWayAccess` is about what ranks may
do between two calls they make together, which depends on all of them having made the same
calls so far.

## 5. What the models leave out, and why

- **The driver**: parsing of the command line, printing, and the commands of
  `H5VL_TEST_*_EXIT_COMMAND`, which run only when configured.  stdout and stderr
  are one pipe: the driver looks at both in the same way.  When the time-out of a call
  and the process time-out end in the same tick, the process time-out is taken.
- **The library**: pipelines, detached processes, `Disown`, `Interrupt`, pipes to
  files and the parent's handles, which the driver does not use; the branch for
  an error of `select()`; `ProcessWin32.c`, another build of the same interface.
- **A time-out of 0** switches the process time-out off; `Terminates` and `BoundedRun`
  are stated for a positive one, which the constructor and CMake always set.
- **The parallel program**: with its tallies, one group of tests, the file tests (`argv[1]`
  is "file"); the dataset group runs in `TestProgram`, without tallies.
  MPI calls do not return errors (the program keeps the default error handler, which
  aborts).  All ranks have the same environment.  A failed HDF5 call prints its
  error stack, which is what the driver sees, except between `H5E_BEGIN_TRY` and
  `H5E_END_TRY`.  The deletion of the container at the end does not fail.
  `create_mpi_fapl` fails on one rank alone (HDF5 may duplicate a communicator in
  it, which the model does not show).
- **The tests**: values, selections, comparisons, buffers and messages.  A failed
  comparison is a failing call.  Timing and the sizes of loops.  HDF5's own state
  below identifiers and files: links, attributes, the number of references to an object.
  A closed file whose objects are open counts as open, as in HDF5.  Duplicates of
  communicators.  `main` of hdf5_test makes all tests before the first cleanup; the
  model makes a group's cleanup after its tests, which is the same for disjoint names.
  A container that could not be made ends `vol_test` and `vol_test_parallel`; the model
  goes on to the tests, which fail then.  Every run starts without files.
- **Tests not modelled**: the serial VOL tests other than the file tests (see the plan);
  `tconfig.c`, `tchecksum.c` and `tid.c` compute in memory and open no
  file; `t_file_image.c` is called by no `main`; groups of `vol_test_parallel`
  other than file and dataset have no tests; the async tests need the semantics of event
  sets, which is the library's.
- **Tallies of the serial harness, random generators, `src/tools`, the rest of kwsys, CMake**: a
  process that adds up four numbers; recursion over random data; scripts; vendored code.
- **HDF5, MPI, the children and the operating system** are outside the repository:
  they are modelled from how the code uses them, and marked external in `PROJECT.json`.

## 6. Plan

Written so far: the process library, the driver with its abstract specification, the
parallel harness with the file group, and, in the vocabulary of `TestSteps`, hdf5_test,
hdf5_testpar, the parallel dataset tests and the serial file tests.  In this order come:

1. The other serial VOL tests (`vol_group_test.c` to `vol_misc_test.c`) in `TestSteps`,
   like `vol_file_test`, with what the capability flags switch off.
2. The tallies of multipart tests (`TESTING_MULTIPART`, parts that skip), in the
   serial and the parallel harness.
3. Proofs about `TestProgram`: `NoFalseAlarm` from a survey of what is so on every way, and
   `OneWayAccess` from a numbering of the calls all ranks make together; and for groups of
   tests that share no files, that the failures of one do not reach another.
4. `AsyncTests`: event sets and what may be used before `H5ESwait`.
