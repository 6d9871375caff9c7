------------------------------ MODULE tvltypes ------------------------------
\* tvltypes.c: the tests of variable-length datatypes.
EXTENDS TestSteps

test_vltypes_dataset_create ==
    Test(
      <<Create("fid1", "tvltypes.h5", {}), Make("sid1", {}), Make("tid1", {}),
        Make("dcpl", {}), Use({"dcpl"}), Close("tid1"), Close("sid1"), Close("dcpl"),
        Close("fid1")>>)

test_vltypes_funcs ==
    Test(<<Make("type", {}), Use({"type"}), Close("type")>>)

test_vltypes_vlen_atomic ==
    Test(
      <<Create("fid1", "tvltypes.h5", {}), Make("sid1", {}), Make("tid1", {}),
        New("dataset", "fid1", {"sid1", "tid1"}), Use({"dataset", "tid1"}),
        Close("dataset"), Make("dcpl_pid", {}), Use({"dcpl_pid", "tid1"}),
        New("dataset", "fid1", {"dcpl_pid", "sid1", "tid1"}), Close("dcpl_pid"),
        Use({"dataset", "tid1"}), Close("dataset"), Close("tid1"), Close("sid1"),
        Close("fid1"), OpenFile("fid1", "tvltypes.h5", {}), Open("dataset", "fid1", {}),
        Make("sid1", {"dataset"}), Make("tid1", {"dataset"}), Make("xfer_pid", {}),
        Use({"dataset", "sid1", "tid1", "xfer_pid"}), Close("dataset"), Close("tid1"),
        Close("sid1"), Close("xfer_pid"), Open("dataset", "fid1", {}),
        Make("sid1", {"dataset"}), Make("tid1", {"dataset"}), Make("sid2", {}),
        Make("xfer_pid", {}), Use({"dataset", "sid1", "sid2", "tid1", "xfer_pid"}),
        Close("dataset"), Use({"sid1", "tid1"}), Close("tid1"), Close("sid1"),
        Close("xfer_pid"), Close("fid1")>>)

rewrite_vltypes_vlen_atomic ==
    Test(
      <<OpenFile("fid1", "tvltypes.h5", {}), Open("dataset", "fid1", {}),
        Make("sid1", {"dataset"}), Make("tid1", {"dataset"}), Use({"dataset", "tid1"}),
        Close("dataset"), Close("tid1"), Close("sid1"), Close("fid1"),
        OpenFile("fid1", "tvltypes.h5", {}), Open("dataset", "fid1", {}),
        Make("sid1", {"dataset"}), Make("tid1", {"dataset"}), Make("xfer_pid", {}),
        Use({"dataset", "sid1", "tid1", "xfer_pid"}), Close("dataset"), Close("tid1"),
        Close("sid1"), Close("xfer_pid"), Close("fid1")>>)

test_vltypes_vlen_compound ==
    Test(
      <<Create("fid1", "tvltypes.h5", {}), Make("sid1", {}), Make("tid2", {}),
        Use({"tid2"}), Make("tid1", {"tid2"}), New("dataset", "fid1", {"sid1", "tid1"}),
        Use({"dataset", "tid1"}), Make("xfer_pid", {}),
        Use({"dataset", "sid1", "tid1", "xfer_pid"}), Close("dataset"), Close("tid1"),
        Close("tid2"), Close("sid1"), Close("xfer_pid"), Close("fid1")>>)

rewrite_vltypes_vlen_compound ==
    Test(
      <<OpenFile("fid1", "tvltypes.h5", {}), Make("tid2", {}), Use({"tid2"}),
        Make("tid1", {"tid2"}), Open("dataset", "fid1", {}), Make("sid1", {"dataset"}),
        Use({"dataset", "tid1"}), Make("xfer_pid", {}),
        Use({"dataset", "sid1", "tid1", "xfer_pid"}), Close("dataset"), Close("tid1"),
        Close("tid2"), Close("sid1"), Close("xfer_pid"), Close("fid1")>>)

test_vltypes_compound_vlen_atomic ==
    Test(
      <<Create("fid1", "tvltypes.h5", {}), Make("sid1", {}), Make("tid1", {}),
        Make("tid2", {}), Use({"tid1", "tid2"}), New("dataset", "fid1", {"sid1", "tid2"}),
        Use({"dataset", "tid2"}), Make("xfer_pid", {}),
        Use({"dataset", "sid1", "tid2", "xfer_pid"}), Close("dataset"),
        Make("dcpl_pid", {}), Use({"dcpl_pid", "tid2"}),
        New("dataset", "fid1", {"sid1", "tid2"}), Close("dcpl_pid"),
        Use({"dataset", "sid1", "tid2"}), Close("dataset"), Use({"sid1", "tid2"}),
        Close("tid2"), Close("tid1"), Close("sid1"), Close("xfer_pid"), Close("fid1")>>)

rewrite_vltypes_compound_vlen_atomic ==
    Test(
      <<OpenFile("fid1", "tvltypes.h5", {}), Make("tid1", {}), Make("tid2", {}),
        Use({"tid1", "tid2"}), Open("dataset", "fid1", {}), Make("sid1", {"dataset"}),
        Use({"dataset", "tid2"}), Make("xfer_pid", {}),
        Use({"dataset", "sid1", "tid2", "xfer_pid"}), Close("dataset"), Close("tid2"),
        Close("tid1"), Close("sid1"), Close("xfer_pid"), Close("fid1")>>)

test_vltypes_vlen_vlen_atomic ==
    Test(
      <<Create("fid1", "tvltypes.h5", {}), Make("sid1", {}), Make("tid1", {}),
        Make("tid2", {"tid1"}), New("dataset", "fid1", {"sid1", "tid2"}),
        Use({"dataset", "tid2"}), Close("dataset"), Close("tid2"), Close("tid1"),
        Close("sid1"), Close("fid1"), OpenFile("fid1", "tvltypes.h5", {}),
        Make("sid1", {}), Make("tid1", {}), Make("tid2", {"tid1"}),
        Open("dataset", "fid1", {}), Make("xfer_pid", {}),
        Use({"dataset", "sid1", "tid2", "xfer_pid"}), Close("dataset"), Close("tid2"),
        Close("tid1"), Close("sid1"), Close("xfer_pid"), Close("fid1")>>)

rewrite_longer_vltypes_vlen_vlen_atomic ==
    Test(
      <<OpenFile("fid1", "tvltypes.h5", {}), Open("dataset", "fid1", {}),
        Make("sid1", {"dataset"}), Make("tid2", {"dataset"}), Use({"dataset", "tid2"}),
        Close("dataset"), Close("tid2"), Close("sid1"), Close("fid1"),
        OpenFile("fid1", "tvltypes.h5", {}), Open("dataset", "fid1", {}),
        Make("sid1", {"dataset"}), Make("tid2", {"dataset"}), Make("xfer_pid", {}),
        Use({"dataset", "sid1", "tid2", "xfer_pid"}), Close("dataset"), Close("tid2"),
        Close("sid1"), Close("xfer_pid"), Close("fid1")>>)

rewrite_shorter_vltypes_vlen_vlen_atomic ==
    Test(
      <<OpenFile("fid1", "tvltypes.h5", {}), Open("dataset", "fid1", {}),
        Make("sid1", {"dataset"}), Make("tid2", {"dataset"}), Use({"dataset", "tid2"}),
        Close("dataset"), Close("tid2"), Close("sid1"), Close("fid1"),
        OpenFile("fid1", "tvltypes.h5", {}), Open("dataset", "fid1", {}),
        Make("sid1", {"dataset"}), Make("tid2", {"dataset"}), Make("xfer_pid", {}),
        Use({"dataset", "sid1", "tid2", "xfer_pid"}), Close("dataset"), Close("tid2"),
        Close("sid1"), Close("xfer_pid"), Close("fid1")>>)

test_vltypes_compound_vlen_vlen ==
    Test(
      <<Create("fid1", "tvltypes.h5", {}), Make("sid1", {}), Make("tid3", {}),
        Make("tid1", {"tid3"}), Make("tid2", {}), Use({"tid1", "tid2"}),
        New("dataset", "fid1", {"sid1", "tid2"}), Use({"dataset", "tid2"}),
        Close("dataset"), Close("fid1"), OpenFile("fid1", "tvltypes.h5", {}),
        Open("dataset", "fid1", {}), Use({"dataset", "sid1", "tid2"}), Close("dataset"),
        Close("sid1"), Close("tid2"), Close("tid1"), Close("tid3"), Close("fid1")>>)

test_vltypes_compound_vlstr ==
    Test(
      <<Create("fid1", "tvltypes.h5", {}), Make("sid1", {}), Make("tid4", {}),
        Use({"tid4"}), Unchecked(Make("tid3", {})), Use({"tid3"}), Make("tid5", {}),
        Use({"tid3", "tid4", "tid5"}), Make("tid1", {"tid5"}), Make("tid2", {}),
        Use({"tid1", "tid2"}), Unchecked(Make("cparms", {})), Use({"cparms"}),
        New("dataset", "fid1", {"cparms", "sid1", "tid2"}), Use({"dataset"}),
        Unchecked(Make("filespace", {"dataset"})),
        Use({"dataset", "fid1", "filespace", "sid1", "tid2"}), Close("dataset"),
        Close("filespace"), Close("tid4"), Close("tid5"), Close("tid3"), Close("tid2"),
        Close("tid1"), Close("cparms"), Close("fid1"), OpenFile("fid1", "tvltypes.h5", {}),
        Open("dset2", "fid1", {}), Make("tid2", {"dset2"}), Use({"dset2", "sid1", "tid2"}),
        Unchecked(Make("filespace2", {"dset2"})), Use({"filespace2"}),
        Unchecked(Make("sid2", {})), Use({"dset2", "filespace2", "sid1", "sid2", "tid2"}),
        Close("dset2"), Close("sid1"), Close("sid2"), Close("filespace2"), Close("tid2"),
        Close("fid1")>>)

test_vltypes_fill_value ==
    Test(
      <<Make("str_id", {}), Use({"str_id"}), Make("dtype1_id", {}),
        Use({"dtype1_id", "str_id"}), Close("str_id"), Make("small_dspace_id", {}),
        Make("large_dspace_id", {}), Make("small_select_dspace_id", {"small_dspace_id"}),
        Use({"small_select_dspace_id"}),
        Make("large_select_dspace_id", {"large_dspace_id"}),
        Use({"large_select_dspace_id"}), Make("scalar_dspace_id", {}), Make("dcpl_id", {}),
        Use({"dcpl_id", "dtype1_id"}), Create("file_id", "tvltypes.h5", {})>>
      \o Twice(
             <<Make("tmp_dcpl_id", {"dcpl_id"}), Use({"tmp_dcpl_id"}),
               New("dset_id", "file_id", {"dtype1_id", "large_dspace_id", "tmp_dcpl_id"}),
               Close("dset_id"), Use({"tmp_dcpl_id"}),
               New("dset_id", "file_id", {"dtype1_id", "large_dspace_id", "tmp_dcpl_id"}),
               Close("dset_id"), Close("tmp_dcpl_id")>>)
      \o <<Close("file_id"), Close("dcpl_id"), Make("xfer_pid", {}), Use({"xfer_pid"}),
           OpenFile("file_id", "tvltypes.h5", {})>>
      \o Twice(
             <<Open("dset_id", "file_id", {}),
               Use({"dset_id", "dtype1_id", "large_dspace_id", "large_select_dspace_id",
                    "xfer_pid"}), Close("dset_id"), Open("dset_id", "file_id", {}),
               Use({"dset_id", "dtype1_id", "large_dspace_id", "large_select_dspace_id",
                    "xfer_pid"}), Close("dset_id")>>)
      \o <<Close("file_id"), OpenFile("file_id", "tvltypes.h5", {})>>
      \o Twice(
             <<Make("single_dspace_id", {"large_dspace_id"}), Use({"single_dspace_id"}),
               Open("dset_id", "file_id", {}),
               Use({"dset_id", "dtype1_id", "large_dspace_id", "large_select_dspace_id",
                    "scalar_dspace_id", "single_dspace_id", "xfer_pid"}), Close("dset_id"),
               Open("dset_id", "file_id", {}),
               Use({"dset_id", "dtype1_id", "large_dspace_id", "large_select_dspace_id",
                    "scalar_dspace_id", "single_dspace_id", "xfer_pid"}), Close("dset_id"),
               Close("single_dspace_id")>>)
      \o <<Close("file_id"), Close("xfer_pid"), Close("small_dspace_id"),
           Close("large_dspace_id"), Close("small_select_dspace_id"),
           Close("large_select_dspace_id"), Close("scalar_dspace_id"),
           Close("dtype1_id")>>)

test_vltypes ==
    Test(
      test_vltypes_dataset_create \o test_vltypes_funcs \o test_vltypes_vlen_atomic
      \o rewrite_vltypes_vlen_atomic \o test_vltypes_vlen_compound
      \o rewrite_vltypes_vlen_compound \o test_vltypes_compound_vlen_atomic
      \o rewrite_vltypes_compound_vlen_atomic \o test_vltypes_vlen_vlen_atomic
      \o rewrite_longer_vltypes_vlen_vlen_atomic \o rewrite_shorter_vltypes_vlen_vlen_atomic
      \o test_vltypes_compound_vlen_vlen \o test_vltypes_compound_vlstr
      \o test_vltypes_fill_value)

cleanup_vltypes ==
    Test(<<Unchecked(Delete("tvltypes.h5"))>>)

=============================================================================
