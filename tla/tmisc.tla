-------------------------------- MODULE tmisc --------------------------------
\* tmisc.c: miscellaneous tests, mostly of bugs that were fixed.
EXTENDS TestSteps

test_misc1 ==
    Test(
      <<Create("file", "tmisc1.h5", {}), Make("dataspace", {}),
        New("dataset", "file", {"dataspace"}), Use({"dataset"}), Close("dataset"),
        Use({"file"}), New("dataset", "file", {"dataspace"}), Use({"dataset"}),
        Close("dataset"), Close("dataspace"), Close("file"),
        OpenFile("file", "tmisc1.h5", {}), Make("dataspace", {}),
        Open("dataset", "file", {}), Use({"dataset"}), Close("dataspace"),
        Close("dataset"), Close("file")>>)

misc2_create_type(type) ==
    Returning({type},
      <<Make("type_tmp", {}), Use({"type_tmp"}), Make(type, {}), Use({"type_tmp", type}),
        Close("type_tmp")>>)

test_misc2_write_attribute ==
    Test(
      misc2_create_type("type")
      \o <<Make("dataspace", {}), Create("file2", "tmisc2b.h5", {}),
           Create("file1", "tmisc2a.h5", {}), Open("root1", "file1", {}),
           New("att1", "root1", {"dataspace", "type"}), Use({"att1", "dataspace", "type"}),
           Close("att1"), Close("root1"), Close("file1"), Open("root2", "file2", {}),
           New("att2", "root2", {"dataspace", "type"}), Use({"att2", "dataspace", "type"}),
           Close("att2"), Close("root2"), Close("type"), Close("dataspace"),
           Close("file2")>>)

test_misc2_read_attribute(filename) ==
    Test(
      misc2_create_type("type")
      \o <<OpenFile("file", filename, {}), Open("root", "file", {}),
           Open("att", "root", {}), Make("space", {"att"}), Use({"att", "space", "type"}),
           Close("space"), Close("att"), Close("type"), Close("root"), Close("file")>>)

test_misc2 ==
    Test(
      test_misc2_write_attribute \o test_misc2_read_attribute("tmisc2a.h5")
      \o test_misc2_read_attribute("tmisc2b.h5"))

\* FAULTY: the creation property list is closed before its use.
test_misc3_closing_early ==
    Test(
      <<Create("file", "tmisc3.h5", {}), Make("dataspace", {}), Make("dcpl", {}),
        Unchecked(Use({"dcpl"})), Close("dcpl"),
        New("dataset", "file", {"dataspace", "dcpl"}),
        Use({"dataset"}), Close("dataspace"), Close("dataset"), Close("file")>>)

test_misc3 ==
    Test(
      <<Create("file", "tmisc3.h5", {}), Make("dataspace", {}), Make("dcpl", {}),
        Unchecked(Use({"dcpl"})), New("dataset", "file", {"dataspace", "dcpl"}),
        Use({"dataset"}), Close("dcpl"), Close("dataspace"), Close("dataset"),
        Close("file")>>)

\* FAULTY: the second file stays open.
test_misc4_leaving_open ==
    Test(
      <<Create("file1", "tmisc4a.h5", {}), New("group1", "file1", {}),
        New("group2", "file1", {}), Create("file2", "tmisc4b.h5", {}),
        New("group3", "file2", {}), Use({"file1", "file2"}), Close("group1"),
        Close("group2"), Close("group3"), Close("file1")>>)

test_misc4 ==
    Test(
      <<Create("file1", "tmisc4a.h5", {}), New("group1", "file1", {}),
        New("group2", "file1", {}), Create("file2", "tmisc4b.h5", {}),
        New("group3", "file2", {}), Use({"file1", "file2"}), Close("group1"),
        Close("group2"), Close("group3"), Close("file1"), Close("file2")>>)

create_struct3 ==
    <<Make("str3hndl->st3h_base", {}), Use({"str3hndl->st3h_base"}),
      Make("str3hndl->st3h_id", {"str3hndl->st3h_base"})>>

create_struct2 ==
    <<Make("str2hndl->st2h_base", {}), Use({"str2hndl->st2h_base"})>>
    \o create_struct3
    \o <<Use({"str2hndl->st2h_base"}), Make("str2hndl->st2h_id", {"str2hndl->st2h_base"})>>

create_struct1 ==
    <<Make("str1hndl->st1h_base", {}), Use({"str1hndl->st1h_base"})>>
    \o create_struct2
    \o <<Use({"str1hndl->st1h_base"}), Make("str1hndl->st1h_id", {"str1hndl->st1h_base"})>>

delete_struct3 ==
    Test(<<Close("str3hndl->st3h_id"), Close("str3hndl->st3h_base")>>)

delete_struct2 ==
    Test(
      <<Close("str2hndl->st2h_id")>>
      \o delete_struct3
      \o <<Unchecked(Close("str2hndl->st2h_base"))>>)

delete_struct1 ==
    Test(
      <<Close("str1hndl->st1h_id")>> \o delete_struct2 \o <<Close("str1hndl->st1h_base")>>)

test_misc5 ==
    Test(
      <<Create("loc_id", "tmisc5.h5", {})>>
      \o create_struct1
      \o <<Make("space_id", {}), New("dataset_id", "loc_id", {"space_id"}),
           Use({"dataset_id"}), Close("dataset_id"), Close("space_id")>>
      \o delete_struct1
      \o <<Close("loc_id"), OpenFile("loc_id", "tmisc5.h5", {}),
           Open("dataset_id", "loc_id", {}), Make("mem_type_id", {"dataset_id"}),
           Make("space_id", {"dataset_id"}),
           Use({"dataset_id", "mem_type_id", "space_id"}), Close("space_id"),
           Close("mem_type_id"), Close("dataset_id"), Close("loc_id")>>)

test_misc6 ==
    Test(
      <<Create("loc_id", "tmisc6.h5", {}), Make("space_id", {}),
        New("dataset_id", "loc_id", {"space_id"}), Close("dataset_id"),
        New("dataset_id", "loc_id", {"space_id"}), Close("dataset_id"), Close("loc_id")>>
      \o Twice(
             <<OpenFile("loc_id", "tmisc6.h5", {}), Open("dataset_id", "loc_id", {}),
               New("attr_id", "dataset_id", {"space_id"}), Close("attr_id"),
               Close("dataset_id"), Open("dataset_id", "loc_id", {}),
               New("attr_id", "dataset_id", {"space_id"}), Close("attr_id"),
               Close("dataset_id"), Close("loc_id")>>)
      \o <<Close("space_id")>>)

test_misc9 ==
    Test(<<Make("fapl", {}), Use({"fapl"}), Close("fapl")>>)

test_misc11 ==
    Test(
      <<Create("file", "tmisc11.h5", {}), Close("file"), Make("fcpl", {}), Use({"fcpl"}),
        Create("file", "tmisc11.h5", {"fcpl"}), Close("fcpl"), Close("file"),
        OpenFile("file", "tmisc11.h5", {}), Make("fcpl", {"file"}), Use({"fcpl"}),
        Close("file"), Close("fcpl")>>)

test_misc12 ==
    Test(
      <<Create("fid1", "tmisc12.h5", {}), Make("sid1", {}), Make("tid1", {}),
        Use({"tid1"}), Make("cparms", {}), Use({"cparms"}),
        New("dataset", "fid1", {"cparms", "sid1", "tid1"}), Use({"dataset", "tid1"}),
        Make("memspace", {}), Make("space", {"dataset"}),
        Use({"dataset", "memspace", "space", "tid1"}), Close("dataset"), Close("tid1"),
        Close("space"), Close("memspace"), Close("sid1"), Close("cparms"), Close("fid1")>>)

test_misc14 ==
    Test(
      <<Make("fapl", {}), Use({"fapl"}), Make("DataSpace", {}),
        Create("file_id", "tmisc14.h5", {"fapl"}),
        New("Dataset1", "file_id", {"DataSpace"}), Use({"Dataset1"}),
        New("Dataset2", "file_id", {"DataSpace"}),
        Use({"Dataset1", "Dataset2", "file_id"}), Close("Dataset2"), Use({"Dataset1"}),
        Close("Dataset1"), Close("file_id"), Create("file_id", "tmisc14.h5", {"fapl"}),
        New("Dataset1", "file_id", {"DataSpace"}), Use({"Dataset1"}),
        New("Dataset2", "file_id", {"DataSpace"}), Use({"Dataset2", "file_id"}),
        Close("Dataset1"), Use({"Dataset2"}), Close("Dataset2"), Close("file_id"),
        Create("file_id", "tmisc14.h5", {"fapl"}),
        New("Dataset1", "file_id", {"DataSpace"}), Use({"Dataset1"}),
        New("Dataset2", "file_id", {"DataSpace"}), Use({"Dataset2"}),
        Unchecked(New("Dataset3", "file_id", {"DataSpace"})),
        Use({"Dataset1", "Dataset3", "file_id"}), Close("Dataset2"),
        Use({"Dataset1", "Dataset3"}), Close("Dataset1"), Close("Dataset3"),
        Close("file_id"), Close("DataSpace"), Close("fapl")>>)

test_misc15 ==
    Test(
      <<Unchecked(Make("fapl", {})), Unchecked(Use({"fapl"})),
        Create("file", "tmisc15.h5.h5", {"fapl"}), Close("fapl"), Make("fapl", {"file"}),
        Close("fapl"), Close("file"), OpenFile("file", "tmisc15.h5.h5", {}),
        Make("fapl", {"file"}), Close("file"), Use({"fapl"}), Close("fapl"),
        OpenFile("file", "tmisc15.h5.h5", {}), Close("file")>>)

test_misc16 ==
    Test(
      <<Create("file", "tmisc16.h5", {}), Make("sid", {}), Make("tid", {}), Use({"tid"}),
        New("dataset", "file", {"sid", "tid"}), Use({"dataset", "tid"}), Close("dataset"),
        Close("tid"), Close("sid"), Close("file")>>)

test_misc17 ==
    Test(
      <<Create("file", "tmisc17.h5", {}), Make("sid", {}), Make("tid", {}), Use({"tid"}),
        New("dataset", "file", {"sid", "tid"}), Use({"dataset", "tid"}), Close("dataset"),
        Close("tid"), Close("sid"), Close("file")>>)

test_misc18 ==
    Test(
      <<Create("fid", "tmisc18.h5", {}), Make("sid", {}), New("did1", "fid", {"sid"}),
        Use({"fid"}), New("did2", "fid", {"sid"}), Use({"fid"})>>
      \o Twice(
             <<New("aid", "did1", {"sid"}), Close("aid"), New("aid", "did2", {"sid"}),
               Close("aid"), Use({"fid"})>>)
      \o <<Use({"fid"}), Close("did2"), Close("did1"), Close("sid"), Close("fid")>>)

test_misc19 ==
    Test(
      <<Create("fid", "tmisc19.h5", {}), Use({"fid"}), Close("fid"), Make("plid", {}),
        Use({"plid"}), Close("plid"), Make("pcid", {}), Use({"pcid"}), Close("pcid"),
        Make("tid", {}), Use({"tid"}), Close("tid"), Make("sid", {}), Use({"sid"}),
        Close("sid"), Create("fid", "tmisc19.h5", {}), Make("sid", {}),
        New("did", "fid", {"sid"}), Use({"did"}), Close("did"), Close("sid"), Close("fid"),
        Create("fid", "tmisc19.h5", {}), Open("gid", "fid", {}), Make("sid", {}),
        New("aid", "gid", {"sid"}), Use({"aid"}), Close("aid"), Close("gid"), Close("sid"),
        Close("fid"), Create("fid", "tmisc19.h5", {}), New("gid", "fid", {}), Use({"gid"}),
        Close("gid"), Close("fid"), Make("ecid", {}), Use({"ecid"}), Close("ecid"),
        Make("ecid", {}), Make("emid", {"ecid"}), Use({"emid"}), Close("emid"),
        Close("ecid"), Make("esid", {}), Use({"esid"}), Close("esid")>>)

test_misc23 ==
    Test(
      <<Create("file_id", "tmisc23.h5", {}), New("group_id", "file_id", {}),
        Make("space_id", {}), Make("type_id", {}), New("tmp_id", "file_id", {}),
        Close("tmp_id"), New("tmp_id", "file_id", {}), Close("tmp_id"),
        New("tmp_id", "file_id", {"space_id", "type_id"}), Close("tmp_id"),
        Make("create_id", {}), Use({"create_id"}), New("tmp_id", "file_id", {"create_id"}),
        Use({"tmp_id"}), Close("tmp_id"), Open("tmp_id", "file_id", {}), Use({"tmp_id"}),
        Close("tmp_id"), New("tmp_id", "file_id", {"create_id"}), Close("tmp_id"),
        New("tmp_id", "group_id", {"create_id"}), Close("tmp_id"),
        New("tmp_id", "group_id", {"create_id"}), Close("tmp_id"),
        New("tmp_id", "file_id", {"create_id"}), Close("tmp_id"), Close("create_id"),
        Make("create_id", {}), Use({"create_id"}),
        New("tmp_id", "file_id", {"create_id", "space_id", "type_id"}), Close("tmp_id"),
        New("tmp_id", "file_id", {"create_id", "space_id", "type_id"}), Close("tmp_id"),
        New("tmp_id", "group_id", {"create_id", "space_id", "type_id"}), Close("tmp_id"),
        New("tmp_id", "group_id", {"create_id", "space_id", "type_id"}), Close("tmp_id"),
        New("tmp_id", "file_id", {"create_id", "space_id", "type_id"}), Close("tmp_id"),
        Close("type_id"), Close("space_id"), Close("create_id"), Make("create_id", {}),
        Use({"create_id"}), Make("tmp_id", {}), Commit("tmp_id", "file_id", {"create_id"}),
        Close("tmp_id"), Make("tmp_id", {}), Commit("tmp_id", "file_id", {"create_id"}),
        Close("tmp_id"), Make("tmp_id", {}), Commit("tmp_id", "group_id", {"create_id"}),
        Close("tmp_id"), Make("tmp_id", {}), Commit("tmp_id", "group_id", {"create_id"}),
        Close("tmp_id"), Make("tmp_id", {}), Commit("tmp_id", "file_id", {"create_id"}),
        Close("tmp_id"), Close("create_id"), Make("create_id", {}),
        Use({"create_id", "file_id"}), Close("create_id"), Close("group_id"),
        Close("file_id")>>)

test_misc25a ==
    Test(
      <<Create("fid", "foo.h5", {}), New("gid", "fid", {}), Close("gid"),
        New("gid", "fid", {}), Close("gid"), New("gid2", "fid", {}), Close("gid2"),
        Close("fid"), OpenFile("fid", "foo.h5", {}), Open("gid", "fid", {}),
        Make("sid", {}), Make("tid", {}), Use({"tid"}), New("aid", "gid", {"sid", "tid"}),
        Close("sid"), Close("tid"), Close("aid"), Make("sid", {}), Make("tid", {}),
        Use({"tid"}), New("aid", "gid", {"sid", "tid"}), Close("sid"), Close("tid"),
        Close("aid"), Close("gid"), Close("fid"), OpenFile("fid", "foo.h5", {}),
        New("gid3", "fid", {}), Close("gid3"), Open("gid", "fid", {}), Use({"gid"}),
        Close("gid"), Close("fid"), OpenFile("fid", "foo.h5", {}), Open("gid", "fid", {}),
        Make("sid", {}), Make("tid", {}), Use({"tid"}), New("aid", "gid", {"sid", "tid"}),
        Close("sid"), Close("tid"), Close("aid"), Close("gid"), Close("fid"),
        OpenFile("fid", "foo.h5", {}), Open("gid", "fid", {}), Use({"gid"}),
        Make("sid", {}), Make("tid", {}), Use({"tid"}), New("aid", "gid", {"sid", "tid"}),
        Close("sid"), Close("tid"), Close("aid"), Close("gid"), Close("fid"),
        OpenFile("fid", "foo.h5", {}), Open("gid", "fid", {}), Use({"gid"}), Close("gid"),
        Close("fid"), OpenFile("fid", "foo.h5", {}), Open("gid", "fid", {}),
        Make("sid", {}), Make("tid", {}), Use({"tid"}), New("aid", "gid", {"sid", "tid"}),
        Close("sid"), Close("tid"), Close("aid"), Close("gid"), Close("fid")>>)

test_misc25c ==
    Test(
      <<Make("fapl", {}), Use({"fapl"}), Create("fid", "nc4_rename.h5", {"fapl"}),
        Make("gcpl", {}), Use({"gcpl"}), New("gid", "fid", {"gcpl"}), Make("sid", {}),
        New("did", "gid", {"sid"}), New("gid2", "fid", {}), Close("gid2"),
        New("aid", "gid", {"sid"}), Close("aid"), New("gid2", "fid", {}), Close("gid2"),
        New("aid", "gid", {"sid"}), Close("aid"), Close("did"), Close("gid"), Close("sid"),
        Close("fid"), Close("fapl"), Close("gcpl"), OpenFile("fid", "nc4_rename.h5", {}),
        Open("gid", "fid", {}), Use({"gid"}), Close("gid"), Close("fid")>>)

test_misc26 ==
    Test(
      <<Make("dcpl1", {}), Use({"dcpl1"}), Make("dcpl2", {"dcpl1"}), Use({"dcpl2"}),
        Make("dcpl3", {"dcpl2"}), Use({"dcpl3"}), Create("fid", "dcpl_file", {}),
        Make("sid", {}), New("did", "fid", {"dcpl1", "sid"}), Close("did"),
        New("did", "fid", {"dcpl2", "sid"}), Close("did"),
        New("did", "fid", {"dcpl3", "sid"}), Close("did"), Close("sid"), Close("fid"),
        Close("dcpl1"), Close("dcpl2"), Close("dcpl3")>>)

test_misc28 ==
    Test(
      <<Make("fapl", {}), Use({"fapl"}), Make("dcpl", {}), Use({"dcpl"}),
        Create("fid", "tmisc28.h5", {"fapl"}), Make("sidf", {}),
        New("did", "fid", {"dcpl", "sidf"}), Make("sidm", {}),
        Use({"did", "sidf", "sidm"}), Close("did"), Open("did", "fid", {}),
        Use({"did", "sidf", "sidm"}), Close("did"), Close("sidf"), Close("sidm"),
        Close("fid"), Close("dcpl"), Close("fapl")>>)

test_misc ==
    Test(
      test_misc1 \o test_misc2 \o test_misc3 \o test_misc4 \o test_misc5 \o test_misc6
      \o test_misc9
      \o When("default driver", test_misc11)
      \o test_misc12 \o test_misc14 \o test_misc15 \o test_misc16 \o test_misc17
      \o test_misc18 \o test_misc19 \o test_misc23 \o test_misc25a \o test_misc25c
      \o test_misc26 \o test_misc28)

cleanup_misc ==
    Test(
      <<Unchecked(Delete("tmisc1.h5")), Unchecked(Delete("tmisc2a.h5")),
        Unchecked(Delete("tmisc2b.h5")), Unchecked(Delete("tmisc3.h5")),
        Unchecked(Delete("tmisc4a.h5")), Unchecked(Delete("tmisc4b.h5")),
        Unchecked(Delete("tmisc5.h5")), Unchecked(Delete("tmisc6.h5")),
        Unchecked(Delete("tmisc7.h5")), Unchecked(Delete("tmisc8.h5")),
        Unchecked(Delete("tmisc9.h5")), Unchecked(Delete("tmisc10.h5")),
        Unchecked(Delete("tmisc11.h5")), Unchecked(Delete("tmisc12.h5")),
        Unchecked(Delete("tmisc13a.h5")), Unchecked(Delete("tmisc13b.h5")),
        Unchecked(Delete("tmisc14.h5")), Unchecked(Delete("tmisc15.h5")),
        Unchecked(Delete("tmisc16.h5")), Unchecked(Delete("tmisc17.h5")),
        Unchecked(Delete("tmisc18.h5")), Unchecked(Delete("tmisc19.h5")),
        Unchecked(Delete("tmisc20.h5")), Unchecked(Delete("tmisc23.h5")),
        Unchecked(Delete("tmisc24.h5")), Unchecked(Delete("foo.h5")),
        Unchecked(Delete("nc4_rename.h5")), Unchecked(Delete("dcpl_file")),
        Unchecked(Delete("tmisc28.h5")), Unchecked(Delete("tmisc29.h5")),
        Unchecked(Delete("tmisc30.h5")), Unchecked(Delete("tmisc31.h5"))>>)

=============================================================================
