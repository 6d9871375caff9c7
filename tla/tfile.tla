-------------------------------- MODULE tfile --------------------------------
\* tfile.c: the tests of low-level file I/O.
EXTENDS TestSteps

test_file_create ==
    Test(
      <<Unchecked(Delete("tfile1.h5")), Create("fid1", "tfile1.h5", {}), Close("fid1"),
        Create("fid1", "tfile1.h5", {}), Make("tmpl1", {"fid1"}), Use({"tmpl1"}),
        Close("tmpl1")>>
      \o When("default driver",
             <<Make("tmpl1", {}), Use({"tmpl1"}), Create("fid2", "tfile2.h5", {"tmpl1"}),
               Close("tmpl1"), Make("dataspace_id", {}),
               New("dataset_id", "fid2", {"dataspace_id"}), Use({"dataset_id"}),
               Close("dataset_id"), Close("dataspace_id"), Make("tmpl1", {"fid2"}),
               Use({"tmpl1"}), Make("tmpl2", {"tmpl1"}), Close("tmpl1"), Use({"tmpl2"}),
               Create("fid3", "tfile3.h5", {"tmpl2"}), Close("tmpl2"),
               Make("tmpl1", {"fid3"}), Use({"tmpl1"}), Close("tmpl1"), Close("fid2"),
               Close("fid3")>>)
      \o <<Close("fid1")>>)

test_file_open ==
    Test(
      When("default driver",
          <<OpenFile("fid1", "tfile2.h5", {}), Use({"fid1"}), Make("tmpl1", {"fid1"}),
            Use({"tmpl1"}), Close("tmpl1"), Close("fid1")>>))

test_file_reopen ==
    Test(
      <<Create("fid", "tfile_reopen.h5", {}), Make("sid", {}), New("did", "fid", {"sid"}),
        Close("sid"), Close("did"), Open("rfid", "fid", {}), Open("did", "rfid", {}),
        Close("did"), Close("fid"), Close("rfid"), Unchecked(Delete("tfile_reopen.h5"))>>)

\* H5Fget_obj_ids gives one dataset less than there are: "last" is closed in the
\* second round.  The file is closed before the datasets opened in it again.
test_get_obj_ids ==
    Test(
      <<Create("fid", "tfile7.h5", {}), Make("filespace", {}), New("gid", "fid", {}),
        New("dset", "fid", {"filespace"}), New("last", "fid", {"filespace"}),
        Use({"fid"}), Close("dset"), Use({"fid"}), Close("last"), Close("gid"),
        Unchecked(Close("filespace")), Unchecked(Close("fid")),
        OpenFile("fid", "tfile7.h5", {}), Open("dset", "fid", {}),
        Unchecked(Close("fid"))>>
      \o Needs({"FILE_MORE"}, <<Unchecked(Close("dset"))>>))

test_file_perm ==
    Test(
      <<Make("dspace", {}), Create("file", "tfile2.h5", {}),
        New("dset", "file", {"dspace"}), Close("dset"),
        OpenFile("filero", "tfile2.h5", {}), Close("filero"), Close("file"),
        Close("dspace")>>)

test_file_perm2 ==
    Test(
      <<Make("dspace", {}), Create("file", "tfile2.h5", {}), Close("file"),
        OpenFile("filero", "tfile2.h5", {}), Make("type", {}), Close("type"),
        Close("filero"), Close("dspace")>>)

test_file_is_accessible ==
    Test(
      <<Make("fapl_id", {}), Use({"fapl_id"}), Unchecked(Use({"fapl_id"})),
        Create("fid", "tfile_is_accessible.h5", {"fapl_id"}), Close("fid"), Use({"fapl_id"}),
        Create("fid", "tfile_is_accessible.h5", {"fapl_id"}), Use({"fapl_id"}), Close("fid")>>
      \o Unless("family driver",
             <<Make("fcpl_id", {}), Use({"fcpl_id"}),
               Create("fid", "tfile_is_accessible.h5", {"fapl_id", "fcpl_id"}),
               Close("fcpl_id"), Close("fid"), Use({"fapl_id"})>>)
      \o <<Unchecked(Delete("tfile_is_accessible.h5")), Close("fapl_id")>>)

test_file_delete(fapl_id) ==
    Test(
      <<Unchecked(Use({fapl_id})), Create("fid", "test_file_delete.h5.h5", {fapl_id}),
        Close("fid"), Use({fapl_id}), Delete("test_file_delete.h5.h5"),
        Unchecked(Use({fapl_id}))>>)

test_file_open_dot ==
    Test(
      <<Create("fid", "tfile1.h5", {}), New("gid", "fid", {}), Make("sid", {}),
        Make("tid", {}), Open("gid2", "fid", {}), Close("gid2"), Open("gid2", "gid", {}),
        Close("gid2"), Close("sid"), Close("gid"), Close("fid")>>)

test_file_open_overlap ==
    Test(
      <<Create("fid1", "tfile1.h5", {}), OpenFile("fid2", "tfile1.h5", {}), Use({"fid1"}),
        New("gid", "fid1", {}), Make("sid", {}), New("did1", "gid", {"sid"}),
        Use({"fid1"}), Close("did1"), Close("gid"), Close("fid1"),
        New("did2", "fid2", {"sid"}), Use({"fid2"}), Close("sid"), Close("did2"),
        Close("fid2")>>)

test_file_getname ==
    Test(
      <<Create("file_id", "tfile1.h5", {}), Use({"file_id"}),
        New("group_id", "file_id", {}), Use({"group_id"}), Make("space_id", {}),
        Unchecked(Use({"space_id"})), New("dataset_id", "file_id", {"space_id"}),
        Use({"dataset_id"}), New("attr_id", "dataset_id", {"space_id"}), Use({"attr_id"}),
        Make("type_id", {}), Use({"type_id"}), Commit("type_id", "file_id", {}),
        Use({"type_id"}), Close("type_id"), Close("attr_id"), Close("dataset_id"),
        Close("space_id"), Close("group_id"), Close("file_id")>>)

test_file_double_root_open ==
    Test(
      <<Create("file1_id", "tfile1.h5", {}), OpenFile("file2_id", "tfile1.h5", {}),
        Open("grp1_id", "file1_id", {}), Open("grp2_id", "file2_id", {}), Close("grp1_id"),
        Close("grp2_id"), Close("file1_id"), Close("file2_id")>>)

test_file_double_group_open ==
    Test(
      <<Create("file1_id", "tfile1.h5", {}), OpenFile("file2_id", "tfile1.h5", {}),
        New("grp1_id", "file1_id", {}), Open("grp2_id", "file2_id", {}), Close("grp1_id"),
        Close("grp2_id"), Close("file1_id"), Close("file2_id")>>)

test_file_double_dataset_open ==
    Test(
      <<Create("file1_id", "tfile1.h5", {}), OpenFile("file2_id", "tfile1.h5", {}),
        Make("space_id", {}), New("dset1_id", "file1_id", {"space_id"}),
        Open("dset2_id", "file2_id", {}), Close("space_id"), Close("dset1_id"),
        Close("dset2_id"), Close("file1_id"), Close("file2_id")>>)

test_file_double_datatype_open ==
    Test(
      <<Create("file1_id", "tfile1.h5", {}), OpenFile("file2_id", "tfile1.h5", {}),
        Make("type1_id", {}), Commit("type1_id", "file1_id", {}),
        Open("type2_id", "file2_id", {}), Close("type1_id"), Close("type2_id"),
        Close("file1_id"), Close("file2_id")>>)

test_file_double_file_dataset_open ==
    Test(
      <<Make("fapl", {}), Use({"fapl"}), Create("fid1", "tfile1.h5.h5", {"fapl"}),
        Make("sid1", {}), Make("tid1", {}), Use({"tid1"}), Make("dcpl", {}), Use({"dcpl"}),
        New("did1", "fid1", {"dcpl", "sid1", "tid1"}), Close("did1"), Close("tid1"),
        Close("sid1"), Close("dcpl"), Make("sid1", {}), Make("tid1", {}), Use({"tid1"}),
        Make("dcpl", {}), Use({"dcpl"}), New("did1", "fid1", {"dcpl", "sid1", "tid1"}),
        Use({"did1", "tid1"}), Close("did1"), Close("tid1"), Close("dcpl"),
        Make("sid2", {}), Make("dcpl", {}), Use({"dcpl"}),
        New("did2", "fid1", {"dcpl", "sid2"}), Use({"did2"}), Close("did2"), Close("sid2"),
        Close("dcpl"), Close("fid1"), OpenFile("fid1", "tfile1.h5.h5", {"fapl"}),
        Open("did1", "fid1", {}), Make("tid1", {"did1"}), Use({"did1", "tid1"}),
        OpenFile("fid2", "tfile1.h5.h5", {"fapl"}), Open("did2", "fid2", {}),
        Make("tid2", {"did2"}), Close("did1"), Close("fid1"), Use({"did2", "tid2"}),
        Close("did2"), Close("fid2"), Close("tid1"), Close("tid2"),
        OpenFile("fid1", "tfile1.h5.h5", {"fapl"}), OpenFile("fid2", "tfile1.h5.h5", {"fapl"}),
        Open("did2", "fid2", {}), Make("tid2", {"did2"}), Open("did1", "fid1", {}),
        Make("tid1", {"did1"}), Use({"did2", "sid1", "tid2"}), Close("did2"),
        Close("fid2"), Use({"did1", "sid1", "tid1", "tid2"}), Close("did1"), Close("fid1"),
        Close("tid1"), Close("sid1"), Close("tid2"),
        OpenFile("fid1", "tfile1.h5.h5", {"fapl"}), Open("did1", "fid1", {}),
        OpenFile("fid2", "tfile1.h5.h5", {"fapl"}), Open("did2", "fid2", {}), Close("did1"),
        Close("fid1"), Close("did2"), Close("fid2"),
        OpenFile("fid1", "tfile1.h5.h5", {"fapl"}), Open("did1", "fid1", {}),
        Make("tid1", {"did1"}), Use({"did1", "tid1"}),
        OpenFile("fid2", "tfile1.h5.h5", {"fapl"}), Open("did2", "fid2", {}), Close("did1"),
        Close("fid1"), Use({"did2"}), Close("did2"), Close("fid2"), Close("tid1"),
        Close("fapl")>>)

test_file ==
    Test(
      <<Make("fapl_id of test_file", {}), Use({"fapl_id of test_file"})>>
      \o test_file_create \o test_file_open \o test_file_reopen \o test_get_obj_ids
      \o test_file_perm \o test_file_perm2 \o test_file_is_accessible
      \o test_file_delete("fapl_id of test_file") \o test_file_open_dot
      \o test_file_open_overlap \o test_file_getname \o test_file_double_root_open
      \o test_file_double_group_open \o test_file_double_dataset_open
      \o test_file_double_datatype_open
      \o Twice(test_file_double_file_dataset_open)
      \o <<Close("fapl_id of test_file")>>)

cleanup_file ==
    Test(
      <<Unchecked(Delete("sys_file1")), Unchecked(Delete("tfile1.h5")),
        Unchecked(Delete("tfile2.h5")), Unchecked(Delete("tfile3.h5")),
        Unchecked(Delete("tfile4.h5")), Unchecked(Delete("tfile5.h5")),
        Unchecked(Delete("tfile6.h5")), Unchecked(Delete("tfile7.h5")),
        Unchecked(Delete("fill18_copy.h5"))>>)

=============================================================================
