------------------------------- MODULE tarray -------------------------------
\* tarray.c: the tests of array datatypes.
EXTENDS TestSteps

test_array_atomic_1d ==
    Test(
      <<Create("fid1", "tarray1.h5", {}), Make("sid1", {}), Make("tid1", {}),
        New("dataset", "fid1", {"sid1", "tid1"}), Use({"dataset", "tid1"}),
        Close("dataset"), Close("tid1"), Close("sid1"), Close("fid1"),
        OpenFile("fid1", "tarray1.h5", {}), Open("dataset", "fid1", {}),
        Make("tid1", {"dataset"}), Use({"dataset", "tid1"}), Close("tid1"),
        Close("dataset"), Close("fid1")>>)

test_array_atomic_3d ==
    Test(
      <<Create("fid", "tarray1.h5", {}), Make("sid", {}), Make("tid", {}),
        New("dataset", "fid", {"sid", "tid"}), Use({"dataset", "tid"}), Close("dataset"),
        Close("tid"), Close("sid"), Close("fid"), OpenFile("fid", "tarray1.h5", {}),
        Open("dataset", "fid", {}), Make("tid", {"dataset"}), Use({"dataset", "tid"}),
        Close("tid"), Close("dataset"), Close("fid")>>)

test_array_array_atomic ==
    Test(
      <<Create("fid", "tarray1.h5", {}), Make("sid", {}), Make("tid2", {}),
        Make("tid1", {"tid2"}), New("dataset", "fid", {"sid", "tid1"}),
        Use({"dataset", "tid1"}), Close("dataset"), Close("tid1"), Close("tid2"),
        Close("sid"), Close("fid"), OpenFile("fid", "tarray1.h5", {}),
        Open("dataset", "fid", {}), Make("tid1", {"dataset"}), Use({"tid1"}),
        Make("tid2", {"tid1"}), Use({"dataset", "tid1", "tid2"}), Close("tid1"),
        Close("tid2"), Close("dataset"), Close("fid")>>)

test_array_compound_atomic ==
    Test(
      <<Create("fid1", "tarray1.h5", {}), Make("sid1", {}), Make("tid2", {}),
        Use({"tid2"}), Make("tid1", {"tid2"}), Close("tid2"),
        New("dataset", "fid1", {"sid1", "tid1"}), Use({"dataset", "tid1"}),
        Close("dataset"), Close("tid1"), Close("sid1"), Close("fid1"),
        OpenFile("fid1", "tarray1.h5", {}), Open("dataset", "fid1", {}),
        Make("tid1", {"dataset"}), Use({"tid1"}), Make("tid2", {"tid1"}), Use({"tid2"}),
        Make("mtid", {"tid2"}), Use({"mtid"}), Unchecked(Close("mtid")), Use({"tid2"}),
        Make("mtid", {"tid2"}), Use({"mtid"}), Close("mtid"), Close("tid2"),
        Use({"dataset", "tid1"}), Close("tid1"), Close("dataset"), Close("fid1")>>)

test_array_compound_array ==
    Test(
      <<Create("fid1", "tarray1.h5", {}), Make("sid1", {}), Make("tid2", {}),
        Use({"tid2"}), Make("tid3", {}), Use({"tid2", "tid3"}), Close("tid3"),
        Make("tid1", {"tid2"}), Close("tid2"), New("dataset", "fid1", {"sid1", "tid1"}),
        Use({"dataset", "tid1"}), Close("dataset"), Close("tid1"), Close("sid1"),
        Close("fid1"), OpenFile("fid1", "tarray1.h5", {}), Open("dataset", "fid1", {}),
        Make("tid1", {"dataset"}), Use({"tid1"}), Make("tid2", {"tid1"}), Use({"tid2"}),
        Make("mtid", {"tid2"}), Use({"mtid"}), Unchecked(Close("mtid")), Use({"tid2"}),
        Make("mtid", {"tid2"}), Use({"mtid"}), Make("tid3", {"mtid"}), Use({"tid3"}),
        Unchecked(Close("tid3")), Close("mtid"), Close("tid2"), Use({"dataset", "tid1"}),
        Close("tid1"), Close("dataset"), Close("fid1")>>)

test_array_vlen_atomic ==
    Test(
      <<Create("fid1", "tarray1.h5", {}), Make("sid1", {}), Make("tid2", {}),
        Make("tid1", {"tid2"}), Close("tid2"), New("dataset", "fid1", {"sid1", "tid1"}),
        Use({"dataset", "tid1"}), Close("dataset"), Close("tid1"), Close("sid1"),
        Close("fid1"), OpenFile("fid1", "tarray1.h5", {}), Open("dataset", "fid1", {}),
        Make("sid1", {"dataset"}), Make("tid1", {"dataset"}), Use({"tid1"}),
        Make("tid2", {"tid1"}), Use({"tid2"}), Make("tid3", {"tid2"}), Use({"tid3"}),
        Close("tid3"), Close("tid2"), Make("xfer_pid", {}),
        Use({"dataset", "sid1", "tid1", "xfer_pid"}), Close("xfer_pid"), Close("tid1"),
        Close("dataset"), Close("fid1")>>)

test_array_vlen_array ==
    Test(
      <<Create("fid1", "tarray1.h5", {}), Make("sid1", {}), Make("tid3", {}),
        Make("tid2", {"tid3"}), Close("tid3"), Make("tid1", {"tid2"}), Close("tid2"),
        New("dataset", "fid1", {"sid1", "tid1"}), Use({"dataset", "tid1"}),
        Close("dataset"), Close("tid1"), Close("sid1"), Close("fid1"),
        OpenFile("fid1", "tarray1.h5", {}), Open("dataset", "fid1", {}),
        Make("sid1", {"dataset"}), Make("tid1", {"dataset"}), Use({"tid1"}),
        Make("tid2", {"tid1"}), Use({"tid2"}), Make("tid3", {"tid2"}), Use({"tid3"}),
        Make("tid4", {"tid3"}), Use({"tid4"}), Close("tid4"), Close("tid3"), Close("tid2"),
        Make("xfer_pid", {}), Use({"dataset", "sid1", "tid1", "xfer_pid"}),
        Close("xfer_pid"), Close("tid1"), Close("dataset"), Close("fid1")>>)

test_array_funcs ==
    Test(<<Make("type", {}), Use({"type"}), Close("type")>>)

test_array_bkg ==
    Test(
      <<Create("fid", "tarray1.h5", {}), Make("space", {}), Make("type", {})>>
      \o Twice(<<Make("array_dt", {}), Use({"array_dt", "type"}), Close("array_dt")>>)
      \o <<New("dataset", "fid", {"space", "type"}), Use({"dataset", "type"}),
           Close("type"), Close("space"), Close("dataset"), Close("fid"),
           OpenFile("fid", "tarray1.h5", {}), Open("dataset", "fid", {}), Make("type", {}),
           Make("array_dt", {}), Use({"array_dt", "dataset", "type"}), Close("type"),
           Close("array_dt"), Make("type", {"dataset"}), Use({"dataset", "type"}),
           Close("dataset"), Close("type"), Close("fid"),
           OpenFile("fid", "tarray1.h5", {}), Open("dataset", "fid", {}),
           Make("type", {"dataset"}), Use({"dataset", "type"}), Close("dataset"),
           Close("type"), Close("fid")>>)

test_array ==
    Test(
      test_array_atomic_1d \o test_array_atomic_3d \o test_array_array_atomic
      \o test_array_compound_atomic \o test_array_compound_array \o test_array_vlen_atomic
      \o test_array_vlen_array \o test_array_funcs \o test_array_bkg)

cleanup_array ==
    Test(<<Unchecked(Delete("tarray1.h5"))>>)

=============================================================================
