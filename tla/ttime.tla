-------------------------------- MODULE ttime --------------------------------
\* ttime.c: the tests of the time datatypes.
EXTENDS TestSteps

test_time_commit ==
    Test(
      <<Create("file_id", "ttime.h5", {}), Make("tid", {}), Commit("tid", "file_id", {}),
        Close("tid"), Make("tid", {}), Commit("tid", "file_id", {}), Close("tid"),
        Make("tid", {}), Commit("tid", "file_id", {}), Close("tid"), Make("tid", {}),
        Commit("tid", "file_id", {}), Close("tid"), Close("file_id"),
        OpenFile("file_id", "ttime.h5", {}), Open("tid", "file_id", {}), Use({"tid"}),
        Close("tid"), Open("tid", "file_id", {}), Use({"tid"}), Close("tid"),
        Open("tid", "file_id", {}), Use({"tid"}), Close("tid"), Open("tid", "file_id", {}),
        Use({"tid"}), Close("tid"), Close("file_id")>>)

test_time ==
    Test(test_time_commit)

\* FAULTY: the name without its prefix.
cleanup_time_elsewhere ==
    Test(<<Unchecked(Delete("time.h5"))>>)

cleanup_time ==
    Test(<<Unchecked(Delete("ttime.h5"))>>)

=============================================================================
