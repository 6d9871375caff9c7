------------------------------- MODULE tvlstr -------------------------------
\* tvlstr.c: the tests of variable-length strings.
EXTENDS TestSteps

test_vlstrings_basic ==
    Test(
      <<Create("fid1", "tvlstr.h5", {}), Make("sid1", {}), Make("tid1", {}), Use({"tid1"}),
        New("dataset", "fid1", {"sid1", "tid1"}), Use({"dataset", "tid1"}),
        Unchecked(Make("dataspace", {})),
        Unchecked(New("dataset2", "fid1", {"dataspace", "tid1"})),
        Use({"dataset2", "tid1"}), Unchecked(Close("dataspace")),
        Unchecked(Close("dataset2")), Make("xfer_pid", {}),
        Use({"dataset", "sid1", "tid1", "xfer_pid"}), Close("dataset"), Close("tid1"),
        Close("sid1"), Close("xfer_pid"), Close("fid1")>>)

test_vlstrings_special ==
    Test(
      <<Create("fid1", "tvlstr.h5", {}), Make("sid1", {}), Make("tid1", {}), Use({"tid1"}),
        New("dataset", "fid1", {"sid1", "tid1"}), Use({"dataset", "sid1", "tid1"}),
        Close("dataset"), Make("dcpl", {}), Use({"dcpl", "tid1"}),
        New("dataset", "fid1", {"dcpl", "sid1", "tid1"}), Close("dcpl"),
        Use({"dataset", "tid1"}), Close("dataset"), Close("tid1"), Close("sid1"),
        Close("fid1")>>)

test_vlstring_type ==
    Test(
      <<OpenFile("fid", "tvlstr.h5", {}), Make("tid_vlstr", {}), Use({"tid_vlstr"}),
        Commit("tid_vlstr", "fid", {}), Close("tid_vlstr"), Open("tid_vlstr", "fid", {}),
        Close("tid_vlstr"), Close("fid"), OpenFile("fid", "tvlstr.h5", {}),
        Open("tid_vlstr", "fid", {}), Use({"tid_vlstr"}), Close("tid_vlstr"),
        Close("fid")>>)

test_compact_vlstring ==
    Test(
      <<Create("fid1", "tvlstr.h5", {}), Make("sid1", {}), Make("tid1", {}), Use({"tid1"}),
        Make("plist", {}), Use({"plist"}),
        New("dataset", "fid1", {"plist", "sid1", "tid1"}),
        Use({"dataset", "sid1", "tid1"}), Close("dataset"), Close("tid1"), Close("sid1"),
        Close("plist"), Close("fid1")>>)

test_write_vl_string_attribute ==
    Test(
      <<OpenFile("file", "tvlstr.h5", {}), Make("type", {}), Use({"type"}),
        Open("root", "file", {}), Make("dataspace", {}),
        New("att", "root", {"dataspace", "type"}), Use({"att", "type"}), Close("att"),
        New("att", "root", {"dataspace", "type"}), Use({"att", "type"}), Close("att"),
        Close("root"), Close("type"), Close("dataspace"), Close("file")>>)

test_read_vl_string_attribute ==
    Test(
      <<OpenFile("file", "tvlstr.h5", {}), Make("type", {}), Use({"type"}),
        Open("root", "file", {}), Open("att", "root", {}), Use({"att", "type"}),
        Close("att"), Open("att", "root", {}), Use({"att", "type"}), Close("att"),
        Close("type"), Close("root"), Close("file")>>)

write_scalar_dset(file, type, space) ==
    Test(<<New("dset", file, {space, type}), Use({"dset", space, type}), Close("dset")>>)

read_scalar_dset(file, type, space) ==
    Test(
      <<Open("dset", file, {}), Use({"dset", space, type}), Close("dset"),
        Use({space, type})>>)

test_vl_rewrite ==
    Test(
      <<Make("type", {}), Use({"type"}), Make("space", {}),
        Create("file1", "tvlstr.h5", {}), Unchecked(Create("file2", "tvlstr2.h5", {}))>>
      \o Twice(write_scalar_dset("file1", "type", "space"))
      \o Twice(
             read_scalar_dset("file1", "type", "space")
             \o write_scalar_dset("file2", "type", "space"))
      \o Twice(read_scalar_dset("file2", "type", "space"))
      \o <<Use({"file2"})>>
      \o Twice(
             read_scalar_dset("file1", "type", "space")
             \o write_scalar_dset("file2", "type", "space"))
      \o <<Close("type"), Close("space"), Close("file1"), Close("file2")>>)

test_write_same_element ==
    Test(
      Needs({"DATASET_BASIC", "FILE_BASIC"},
          <<Create("file1", "sel2el.h5", {}), Make("dtype", {}), Use({"dtype"}),
            Make("fspace", {}), New("dataset1", "file1", {"dtype", "fspace"}),
            Use({"dataset1", "dtype"}), Close("dataset1"), Close("dtype"), Close("fspace"),
            Close("file1"), OpenFile("file1", "sel2el.h5", {}),
            Open("dataset1", "file1", {}), Make("fspace", {"dataset1"}),
            Make("dtype", {"dataset1"}), Make("mspace", {}),
            Use({"dataset1", "dtype", "fspace", "mspace"}), Close("dtype"),
            Close("dataset1"), Close("fspace"), Close("mspace"), Close("file1")>>))

test_vlstrings ==
    Test(
      test_vlstrings_basic \o test_vlstrings_special \o test_vlstring_type
      \o test_compact_vlstring \o test_write_vl_string_attribute
      \o test_read_vl_string_attribute \o test_vl_rewrite \o test_write_same_element)

cleanup_vlstrings ==
    Test(
      <<Unchecked(Delete("tvlstr.h5")), Unchecked(Delete("tvlstr2.h5")),
        Unchecked(Delete("sel2el.h5"))>>)

=============================================================================
