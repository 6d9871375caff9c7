------------------------------- MODULE trefer -------------------------------
\* trefer.c: the tests of references.
EXTENDS TestSteps

test_reference_params ==
    Test(
      <<Create("fid1", "trefer_param.h5", {}), Make("sid1", {}), Make("aapl_id", {}),
        Make("dapl_id", {}), New("group", "fid1", {}), New("dataset", "group", {"sid1"}),
        Use({"dataset"}), Close("dataset"), New("dataset", "group", {"sid1"}),
        New("attr", "dataset", {"sid1"}), Use({"attr"}), Close("attr"), Close("dataset"),
        Make("tid1", {}), Use({"tid1"}), Commit("tid1", "group", {}), Close("tid1"),
        Close("group"), Unchecked(New("dataset", "fid1", {"sid1"})), Use({"fid1", "sid1"}),
        Close("sid1"), Close("dapl_id"), Close("aapl_id"), Close("dataset"),
        Close("fid1")>>)

test_reference_obj ==
    Test(
      <<Create("fid1", "trefer_obj.h5", {}), Make("sid1", {}), Make("dapl_id", {}),
        New("group", "fid1", {}), New("dataset", "group", {"sid1"}), Use({"dataset"}),
        Close("dataset"), New("dataset", "group", {"sid1"}), Close("dataset"),
        Make("tid1", {}), Use({"tid1"}), Commit("tid1", "group", {}), Close("tid1"),
        Close("group"), New("dataset", "fid1", {"sid1"}), Use({"dataset", "fid1"}),
        Close("sid1"), Close("dataset"), Close("fid1"),
        OpenFile("fid1", "trefer_obj.h5", {}), Open("dataset", "fid1", {}),
        Use({"dataset"}), Open("dset2", "dataset", {"dapl_id"}), Make("sid1", {"dset2"}),
        Use({"dset2", "sid1"}), Close("dset2"), Open("group", "dataset", {}),
        Close("group"), Open("tid1", "dataset", {}), Use({"tid1"}), Close("tid1"),
        Close("dataset"), Close("dapl_id"), Close("fid1")>>)

test_reference_vlen_obj ==
    Test(
      <<Create("fid1", "trefer_vl_obj.h5", {}), Make("sid1", {}), Make("dapl_id", {}),
        New("group", "fid1", {}), New("dataset", "group", {"sid1"}), Use({"dataset"}),
        Close("dataset"), New("dataset", "group", {"sid1"}), Close("dataset"),
        Close("sid1"), Make("tid1", {}), Use({"tid1"}), Commit("tid1", "group", {}),
        Close("tid1"), Close("group"), Make("tid1", {}), Make("sid1", {}),
        New("dataset", "fid1", {"sid1", "tid1"}), Use({"dataset", "fid1", "tid1"}),
        Close("sid1"), Close("dataset"), Close("tid1"), Close("fid1"),
        OpenFile("fid1", "trefer_vl_obj.h5", {}), Open("dataset", "fid1", {}),
        Make("tid1", {"dataset"}), Use({"dataset", "tid1"}), Close("tid1"),
        Open("dset2", "dataset", {"dapl_id"}), Make("sid1", {"dset2"}),
        Use({"dset2", "sid1"}), Close("dset2"), Open("group", "dataset", {}),
        Close("group"), Open("tid1", "dataset", {}), Use({"tid1"}), Close("tid1"),
        Close("dataset"), Close("dapl_id"), Close("fid1")>>)

test_reference_cmpnd_obj ==
    Test(
      <<Create("fid1", "trefer_cmpnd_obj.h5", {}), Make("sid1", {}), Make("dapl_id", {}),
        New("group", "fid1", {}), New("dataset", "group", {"sid1"}), Use({"dataset"}),
        Close("dataset"), New("dataset", "group", {"sid1"}), Close("dataset"),
        Close("sid1"), Make("tid1", {}), Use({"tid1"}), Commit("tid1", "group", {}),
        Close("tid1"), Close("group"), Make("tid1", {}), Use({"tid1"}), Make("sid1", {}),
        New("dataset", "fid1", {"sid1", "tid1"}), Use({"dataset", "fid1", "tid1"}),
        Close("sid1"), Close("dataset"), Close("tid1"), Close("fid1"),
        OpenFile("fid1", "trefer_cmpnd_obj.h5", {}), Open("dataset", "fid1", {}),
        Make("tid1", {"dataset"}), Use({"dataset", "tid1"}), Close("tid1"),
        Open("dset2", "dataset", {"dapl_id"}), Make("sid1", {"dset2"}),
        Use({"dset2", "sid1"}), Close("dset2"), Open("group", "dataset", {}),
        Close("group"), Open("tid1", "dataset", {}), Use({"tid1"}), Close("tid1"),
        Close("dataset"), Close("dapl_id"), Close("fid1")>>)

test_reference_region ==
    Test(
      <<Make("fapl", {}), Use({"fapl"}), Create("fid1", "trefer_reg.h5", {"fapl"}),
        Make("sid2", {}), Make("dapl_id", {}), New("dset2", "fid1", {"sid2"}),
        Use({"dset2"}), Close("dset2"), Make("sid1", {})>>
      \o When("references refused",
             <<Close("sid1"), Close("sid2"), Close("fapl"), Close("fid1")>>)
      \o Unless("references refused",
             <<New("dset1", "fid1", {"sid1"}), Use({"dset1", "fid1", "sid2"}),
               Make("space_NA", {}), New("dset_NA", "fid1", {"space_NA"}),
               Close("dset_NA"), Close("space_NA"), Close("sid1"), Close("dset1"),
               Close("sid2"), Close("fid1"), OpenFile("fid1", "trefer_reg.h5", {"fapl"}),
               Open("dset_NA", "fid1", {}), Use({"dset_NA"}), Close("dset_NA"),
               Open("dset1", "fid1", {}), Use({"dset1"}),
               Open("dset2", "dset1", {"dapl_id"}), Make("sid1", {"dset2"}),
               Use({"dset2", "sid1"}), Make("sid2", {}), Use({"sid2"}), Close("sid2"),
               Make("sid2", {}), Use({"sid2"}), Close("sid2"), Make("sid2", {}),
               Use({"sid2"}), Close("sid2"), Close("sid1"), Close("dset2"), Close("dset1"),
               Close("dapl_id"), Close("fid1")>>))

test_reference_region_1D ==
    Test(
      <<Make("fapl", {}), Use({"fapl"}), Create("fid1", "trefer_reg_1d.h5", {"fapl"}),
        Make("sid3", {}), Make("dapl_id", {}), New("dset3", "fid1", {"sid3"}),
        Use({"dset3"}), Close("dset3"), Make("sid1", {})>>
      \o When("references refused",
             <<Close("sid1"), Close("sid3"), Close("fapl"), Close("fid1")>>)
      \o Unless("references refused",
             <<New("dset1", "fid1", {"sid1"}), Use({"dset1", "fid1", "sid3"}),
               Close("sid1"), Close("dset1"), Close("sid3"), Close("fid1"),
               OpenFile("fid1", "trefer_reg_1d.h5", {"fapl"}), Open("dset1", "fid1", {}),
               Use({"dset1"}), Open("dset3", "dset1", {"dapl_id"}),
               Make("sid1", {"dset3"}), Use({"dset3", "sid1"}), Make("sid3", {}),
               Use({"sid3"}), Close("sid3"), Make("sid3", {}), Use({"sid3"}),
               Close("sid3"), Close("sid1"), Close("dset3"), Close("dset1"),
               Close("dapl_id"), Close("fapl"), Close("fid1")>>))

test_reference_obj_deleted ==
    Test(
      Needs({"REF_BASIC", "FILE_BASIC", "DATASET_BASIC", "LINK_BASIC"},
          <<Create("fid1", "trefer_obj_del.h5", {}), Make("sid1", {}),
            New("dataset", "fid1", {"sid1"}), Close("dataset"),
            New("dataset", "fid1", {"sid1"}), Use({"dataset", "fid1"}), Close("dataset"),
            Use({"fid1"}), Close("sid1"), Close("fid1"),
            OpenFile("fid1", "trefer_obj_del.h5", {}),
            Unchecked(Open("dataset", "fid1", {})), Use({"dataset"}), Close("dataset"),
            Close("fid1")>>))

test_reference_group ==
    Test(
      <<Create("fid", "trefer_grp.h5", {}), Make("sid", {}), New("gid", "fid", {}),
        New("gid2", "gid", {}), Close("gid2"), New("gid2", "gid", {}), Close("gid2"),
        New("did", "gid", {"sid"}), Close("did"), Close("gid"), New("did", "fid", {"sid"}),
        Use({"did", "fid"}), Close("did"), Close("sid"), Close("fid"),
        OpenFile("fid", "trefer_grp.h5", {}), Open("did", "fid", {}), Use({"did"}),
        Open("gid", "did", {}), Use({"gid"}), Close("did"), Close("gid"), Close("fid")>>)

test_reference_attr ==
    Test(
      <<Create("fid", "trefer_attr.h5", {}), Make("sid", {}), Make("dapl_id", {}),
        New("group", "fid", {}), New("attr", "group", {"sid"}), Use({"attr"}),
        Close("attr"), New("dataset", "group", {"sid"}), New("attr", "dataset", {"sid"}),
        Use({"attr"}), Close("attr"), Close("dataset"), New("dataset", "group", {"sid"}),
        Close("dataset"), Make("tid", {}), Use({"tid"}), Commit("tid", "group", {}),
        New("attr", "tid", {"sid"}), Use({"attr"}), Close("attr"), Close("tid"),
        Close("group"), New("dataset", "fid", {"sid"}), Use({"dataset", "fid"}),
        Close("sid"), Close("dataset"), Close("fid"),
        OpenFile("fid", "trefer_attr.h5", {}), Unchecked(Open("dataset", "fid", {})),
        Use({"dataset"}), Open("attr", "dataset", {}), Make("sid", {"attr"}),
        Use({"attr", "sid"}), Close("attr"), Open("attr", "dataset", {}), Use({"attr"}),
        Close("attr"), Open("attr", "dataset", {}), Use({"attr"}), Close("attr"),
        Close("dataset"), Close("dapl_id"), Close("fid")>>)

test_reference_external ==
    Test(
      <<Create("fid1", "trefer_ext1.h5", {}), Make("sid", {}), Make("dapl_id", {}),
        New("group", "fid1", {}), New("attr", "group", {"sid"}), Use({"attr"}),
        Close("attr"), New("dataset", "group", {"sid"}), New("attr", "dataset", {"sid"}),
        Use({"attr"}), Close("attr"), Close("dataset"), New("dataset", "group", {"sid"}),
        Close("dataset"), Make("tid", {}), Use({"tid"}), Commit("tid", "group", {}),
        New("attr", "tid", {"sid"}), Use({"attr"}), Close("attr"), Close("tid"),
        Close("group"), Use({"fid1"}), Close("sid"), Close("fid1"),
        Create("fid2", "trefer_ext2.h5", {}), Make("sid", {}),
        New("dataset", "fid2", {"sid"}), Use({"dataset"}), Close("sid"), Close("dataset"),
        Close("fid2"), OpenFile("fid2", "trefer_ext2.h5", {}),
        Unchecked(Open("dataset", "fid2", {})), Use({"dataset"}),
        OpenFile("attr", "trefer_ext1.h5", {"dataset"}), Make("sid", {"attr"}),
        Use({"attr", "sid"}), Close("attr"),
        OpenFile("attr", "trefer_ext1.h5", {"dataset"}), Use({"attr"}), Close("attr"),
        OpenFile("attr", "trefer_ext1.h5", {"dataset"}), Use({"attr"}), Close("attr"),
        Close("dataset"), Close("dapl_id"), Close("fid2")>>)

test_reference_perf ==
    Test(
      <<Create("fid1", "trefer_obj.h5", {}), Make("sid1", {}), Make("dapl_id", {}),
        New("group", "fid1", {}), New("dataset", "group", {"sid1"}), Use({"dataset"}),
        Close("dataset"), New("dataset", "group", {"sid1"}), Close("dataset"),
        Make("tid1", {}), Use({"tid1"}), Commit("tid1", "group", {}), Close("tid1"),
        Close("group"), New("dataset", "fid1", {"sid1"}), Use({"dataset", "fid1"}),
        Close("dataset"), New("dataset", "fid1", {"sid1"}),
        Use({"dataset", "fid1", "sid1"}), Close("dataset"), Close("sid1"), Close("fid1"),
        OpenFile("fid1", "trefer_obj.h5", {}), Open("dataset", "fid1", {}),
        Use({"dataset"}), Open("dset2", "dataset", {"dapl_id"}), Make("sid1", {"dset2"}),
        Use({"dset2", "sid1"}), Close("dset2"), Close("dataset"),
        Open("dataset", "fid1", {}), Use({"dataset"}), Close("dataset"), Close("dapl_id"),
        Close("fid1")>>)

test_reference ==
    Test(
      test_reference_params \o test_reference_obj \o test_reference_vlen_obj
      \o test_reference_cmpnd_obj
      \o Twice(test_reference_region \o test_reference_region_1D)
      \o Unless("direct driver", test_reference_obj_deleted)
      \o test_reference_group \o test_reference_attr \o test_reference_external
      \o test_reference_perf)

cleanup_reference ==
    Test(
      <<Unchecked(Delete("trefer_param.h5")), Unchecked(Delete("trefer_obj.h5")),
        Unchecked(Delete("trefer_vl_obj.h5")), Unchecked(Delete("trefer_cmpnd_obj.h5")),
        Unchecked(Delete("trefer_reg.h5")), Unchecked(Delete("trefer_reg_1d.h5")),
        Unchecked(Delete("trefer_obj_del.h5")), Unchecked(Delete("trefer_grp.h5")),
        Unchecked(Delete("trefer_attr.h5")), Unchecked(Delete("trefer_ext1.h5")),
        Unchecked(Delete("trefer_ext2.h5")), Unchecked(Delete("trefer_compat.h5"))>>)

=============================================================================
