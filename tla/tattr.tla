-------------------------------- MODULE tattr --------------------------------
\* tattr.c: the tests of attributes.
EXTENDS TestSteps

test_attr_basic_write(fapl) ==
    Test(
      <<Create("fid1", "tattr.h5", {fapl}), Make("sid1", {}),
        New("dataset", "fid1", {"dcpl_g", "sid1"}), Make("sid2", {}),
        New("attr", "fid1", {"sid2"}), Close("attr"), Open("group", "fid1", {}),
        Open("attr", "group", {}), Close("attr"), Close("group"),
        New("attr", "dataset", {"sid2"}), Use({"attr"}),
        Unchecked(New("attr2", "dataset", {"sid2"})), Use({"attr", "attr2"}),
        Close("attr"), Close("attr2"), Use({"dataset"}), Open("attr", "dataset", {}),
        Use({"attr"}), Close("attr"), Unchecked(Open("attr2", "dataset", {})),
        Use({"attr2"}), Close("attr2"), Close("sid1"), Close("sid2"), Close("dataset"),
        New("group", "fid1", {}), Make("sid2", {}), New("attr", "group", {"sid2"}),
        Use({"attr"}), Close("attr"), Close("sid2"), Close("group"), Close("fid1")>>)

test_attr_basic_read(fapl) ==
    Test(
      <<OpenFile("fid1", "tattr.h5", {fapl}), Open("dataset", "fid1", {}),
        Use({"dataset"}), Open("attr", "dataset", {}), Use({"attr"}), Close("attr"),
        Close("dataset"), Open("group", "fid1", {}), Use({"group"}),
        Open("attr", "group", {}), Use({"attr"}), Close("attr"), Close("group"),
        Close("fid1")>>)

test_attr_flush(fapl) ==
    Test(
      <<Create("fil", "tattr.h5", {fapl}), Make("spc", {}),
        New("set", "fil", {"dcpl_g", "spc"}), New("att", "set", {"spc"}),
        Use({"att", "fil"}), Close("spc"), Close("att"), Close("set"), Close("fil")>>)

test_attr_plist(fapl) ==
    Test(
      <<Create("fid", "tattr.h5", {fapl}), Make("dsid", {}),
        New("did", "fid", {"dcpl_g", "dsid"}), Make("asid", {}), Make("acpl_id", {}),
        Make("aapl_id", {}), Use({"acpl_id"}),
        New("aid", "did", {"aapl_id", "acpl_id", "asid"}), Close("acpl_id"),
        Make("acpl_id", {"aid"}), Use({"acpl_id"}), Close("acpl_id"), Close("aid"),
        Make("acpl_id", {}), Use({"acpl_id"}),
        New("aid", "did", {"aapl_id", "acpl_id", "asid"}), Close("acpl_id"), Close("aid"),
        Open("aid", "did", {}), Make("acpl_id", {"aid"}), Use({"acpl_id"}), Close("dsid"),
        Close("asid"), Close("aapl_id"), Close("acpl_id"), Close("aid"), Close("did"),
        Close("fid")>>)

test_attr_compound_write(fapl) ==
    Test(
      <<Create("fid1", "tattr.h5", {fapl}), Make("sid1", {}),
        New("dataset", "fid1", {"dcpl_g", "sid1"}), Close("sid1"), Make("tid1", {}),
        Use({"tid1"}), Make("sid2", {}), New("attr", "dataset", {"sid2", "tid1"}),
        Use({"attr", "tid1"}), Close("attr"), Close("sid2"), Close("tid1"),
        Close("dataset"), Close("fid1")>>)

test_attr_compound_read(fapl) ==
    Test(
      <<OpenFile("fid1", "tattr.h5", {fapl}), Open("dataset", "fid1", {}),
        Use({"dataset"}), Open("attr", "dataset", {}), Make("space", {"attr"}),
        Use({"space"}), Unchecked(Close("space")), Make("type", {"attr"}), Use({"type"}),
        Make("field", {"type"}), Use({"field"}), Unchecked(Close("field")),
        Make("field", {"type"}), Use({"field"}), Unchecked(Close("field")),
        Make("field", {"type"}), Use({"field"}), Unchecked(Close("field")),
        Use({"attr", "type"}), Close("type"), Close("attr"), Close("dataset"),
        Close("fid1")>>)

test_attr_scalar_write(fapl) ==
    Test(
      <<Create("fid1", "tattr.h5", {fapl}), Make("sid1", {}),
        New("dataset", "fid1", {"dcpl_g", "sid1"}), Make("sid2", {}),
        New("attr", "dataset", {"sid2"}), Use({"attr"}), Close("attr"), Close("sid1"),
        Close("sid2"), Close("dataset"), Close("fid1")>>)

test_attr_scalar_read(fapl) ==
    Test(
      <<OpenFile("fid1", "tattr.h5", {fapl}), Open("dataset", "fid1", {}),
        Use({"dataset"}), Open("attr", "dataset", {}), Use({"attr"}),
        Make("sid", {"attr"}), Use({"sid"}), Close("sid"), Close("attr"), Close("dataset"),
        Close("fid1")>>)

test_attr_mult_write(fapl) ==
    Test(
      <<Create("fid1", "tattr.h5", {fapl}), Make("sid1", {}),
        New("dataset", "fid1", {"dcpl_g", "sid1"}), Close("sid1"), Make("sid2", {}),
        New("attr", "dataset", {"sid2"}), Use({"attr"}), Close("attr"), Close("sid2"),
        Make("sid2", {}), New("attr", "dataset", {"sid2"}), Use({"attr"}), Close("attr"),
        Close("sid2"), Make("sid2", {}), New("attr", "dataset", {"sid2"}), Use({"attr"}),
        Close("attr"), Close("sid2"), Close("dataset"), Close("fid1")>>)

test_attr_mult_read(fapl) ==
    Test(
      <<OpenFile("fid1", "tattr.h5", {fapl}), Open("dataset", "fid1", {}),
        Use({"dataset"}), Open("attr", "dataset", {}), Make("space", {"attr"}),
        Use({"space"}), Unchecked(Close("space")), Make("type", {"attr"}), Use({"type"}),
        Unchecked(Close("type")), Use({"attr"}), Close("attr"),
        Open("attr", "dataset", {}), Make("space", {"attr"}), Use({"space"}),
        Unchecked(Close("space")), Make("type", {"attr"}), Use({"type"}),
        Unchecked(Close("type")), Use({"attr"}), Close("attr"),
        Open("attr", "dataset", {}), Make("space", {"attr"}), Use({"space"}),
        Unchecked(Close("space")), Make("type", {"attr"}), Use({"type"}),
        Unchecked(Close("type")), Use({"attr"}), Close("attr"), Close("dataset"),
        Close("fid1")>>)

test_attr_iterate(fapl) ==
    Test(
      <<OpenFile("file", "tattr.h5", {fapl}), Make("sid", {}),
        New("dataset", "file", {"dcpl_g", "sid"}), Close("sid"), Use({"dataset"}),
        Close("dataset"), Open("dataset", "file", {}), Use({"dataset"}), Close("dataset"),
        Close("file")>>)

test_attr_delete(fapl) ==
    Test(
      <<OpenFile("fid1", "tattr.h5", {fapl}), Open("dataset", "fid1", {}),
        Use({"dataset"}), Open("attr", "dataset", {}), Use({"attr"}), Close("attr"),
        Open("attr", "dataset", {}), Use({"attr"}), Close("attr"), Use({"dataset"}),
        Open("attr", "dataset", {}), Use({"attr"}), Close("attr"), Use({"dataset"}),
        Close("dataset"), Close("fid1")>>)

test_attr_dtype_shared(fapl) ==
    Test(
      Needs({"STORED_DATATYPES", "FILE_BASIC"},
          <<Create("file_id", "tattr.h5", {fapl}), Close("file_id"),
            OpenFile("file_id", "tattr.h5", {fapl}), Make("type_id", {}),
            Commit("type_id", "file_id", {}), Use({"file_id"}), Make("space_id", {}),
            New("dset_id", "file_id", {"dcpl_g", "space_id", "type_id"}), Use({"file_id"}),
            New("attr_id", "dset_id", {"space_id", "type_id"}), Use({"file_id"}),
            Close("attr_id"), Use({"dset_id", "file_id"}),
            New("attr_id", "dset_id", {"space_id", "type_id"}),
            Use({"attr_id", "file_id"}), Close("attr_id"), Close("dset_id"),
            Close("space_id"), Close("type_id"), Close("file_id"),
            OpenFile("file_id", "tattr.h5", {fapl}), Open("dset_id", "file_id", {}),
            Open("attr_id", "dset_id", {}), Use({"attr_id"}), Close("attr_id"),
            Close("dset_id"), Use({"file_id"}), Close("file_id")>>))

test_attr_duplicate_ids(fapl) ==
    Test(
      <<Create("fid1", "tattr.h5", {fapl}), Make("sid1", {}),
        New("dataset", "fid1", {"dcpl_g", "sid1"}), Make("sid2", {}),
        New("attr", "dataset", {"sid2"}), Open("attr2", "dataset", {}), Close("attr2"),
        Close("attr"), Close("dataset"), Close("fid1"),
        OpenFile("fid1", "tattr.h5", {fapl}), Open("dataset", "fid1", {}),
        Open("attr", "dataset", {}), Use({"attr"}),
        Unchecked(Open("attr2", "dataset", {})), Use({"attr2"}), Close("attr2"),
        Close("attr"), Close("dataset"), Close("fid1"),
        OpenFile("fid1", "tattr.h5", {fapl}), Open("dataset", "fid1", {}),
        Open("attr", "dataset", {}), Use({"attr"}),
        Unchecked(Open("attr2", "dataset", {})), Use({"attr", "attr2"}), Close("attr"),
        Close("attr2"), Close("dataset"), Close("fid1"),
        OpenFile("fid1", "tattr.h5", {fapl}), New("gid1", "fid1", {}), Use({"gid1"}),
        New("attr", "gid1", {"sid2"}), Open("gid2", "fid1", {}), Open("attr2", "gid2", {}),
        Use({"attr", "attr2"}), Close("attr"), Close("attr2"), Close("gid1"),
        Close("gid2"), Close("sid2"), Close("sid1"), Close("fid1")>>)

test_attr_big(fcpl, fapl) ==
    Test(
      <<Create("fid", "tattr.h5", {fapl, fcpl}), Close("fid"),
        OpenFile("fid", "tattr.h5", {fapl}), Make("sid", {}), Make("big_sid", {}),
        Make("dcpl", {"dcpl_g"}), Use({"dcpl", fapl, fcpl}),
        New("dataset", "fid", {"dcpl", "sid"}), Close("dcpl"),
        New("attr", "dataset", {"sid"}), Close("attr"), New("attr", "dataset", {"sid"}),
        Close("attr")>>
      \o IfMade(New("attr", "dataset", {"big_sid"}),
             <<Close("attr"), New("attr", "dataset", {"big_sid"}), Close("attr"),
               Use({"dataset"})>>)
      \o <<Close("sid"), Close("big_sid"), Close("dataset"), Use({"fid"}), Close("fid")>>)

test_attr_null_space(fcpl, fapl) ==
    Test(
      <<Create("fid", "tattr.h5", {fapl, fcpl}), Close("fid"),
        OpenFile("fid", "tattr.h5", {fapl}), Make("sid", {}), Make("null_sid", {}),
        New("dataset", "fid", {"dcpl_g", "sid"}), New("attr", "dataset", {"null_sid"}),
        Use({"attr"}), Make("attr_sid", {"attr"}), Use({"attr_sid", "null_sid"}),
        Close("attr_sid"), Use({"attr"}), Close("attr"),
        New("attr", "dataset", {"null_sid"}), Use({"attr"}), Close("attr"),
        Close("dataset"), Close("fid"), OpenFile("fid", "tattr.h5", {fapl}),
        Open("dataset", "fid", {}), Open("attr", "dataset", {}), Use({"attr"}),
        Make("attr_sid", {"attr"}), Use({"attr_sid", "null_sid"}), Close("attr_sid"),
        Use({"attr"}), Close("attr"), Open("attr", "dataset", {}), Use({"attr"}),
        Close("attr"), Close("dataset"), Use({"fid"}), Close("fid"), Close("sid"),
        Close("null_sid")>>)

test_attr_deprec(fcpl, fapl) ==
    Test(
      <<Create("fid", "tattr.h5", {fapl, fcpl}), Make("sid", {}),
        New("dataset", "fid", {"dcpl_g", "sid"}), New("attr", "dataset", {"sid"}),
        Close("attr"), Close("sid"), Close("dataset"), Close("fid"),
        OpenFile("fid", "tattr.h5", {fapl}), Open("dataset", "fid", {}),
        Open("attr", "dataset", {}), Close("attr"), Open("attr", "dataset", {}),
        Close("attr"), Close("dataset"), Close("fid")>>)

test_attr_many(fcpl, fapl) ==
    Test(
      <<Create("fid", "tattr.h5", {fapl, fcpl}), Make("sid", {}), New("gid", "fid", {})>>
      \o Twice(
             <<Use({"fid", "gid"}), New("aid", "gid", {"sid"}), Use({"aid", "fid", "gid"}),
               Close("aid"), Use({"fid", "gid"})>>)
      \o <<Close("gid"), Close("fid"), OpenFile("fid", "tattr.h5", {fapl}),
           Open("gid", "fid", {})>>
      \o Twice(
             <<Use({"fid", "gid"}), Open("aid", "gid", {}), Use({"aid", "fid", "gid"}),
               Close("aid")>>)
      \o <<Close("gid"), Close("fid"), Close("sid")>>)

test_attr_info_null_info_pointer(fcpl, fapl) ==
    Test(
      <<Make("sid", {}), Create("fid", "tattr.h5", {fapl, fcpl}),
        New("attr", "fid", {"sid"}), Unchecked(Use({"attr", "fid"})), Close("sid"),
        Close("attr"), Close("fid")>>)

test_attr_rename_invalid_name(fcpl, fapl) ==
    Test(
      <<Make("sid", {}), Create("fid", "tattr.h5", {fapl, fcpl}),
        New("attr", "fid", {"sid"}), Unchecked(Use({"fid"})), Close("sid"), Close("attr"),
        Close("fid")>>)

test_attr_get_name_invalid_buf(fcpl, fapl) ==
    Test(
      <<Make("sid", {}), Create("fid", "tattr.h5", {fapl, fcpl}),
        New("attr", "fid", {"sid"}), Unchecked(Use({"attr", "fid"})), Close("sid"),
        Close("attr"), Close("fid")>>)

attr_info_by_idx_check(obj_id) ==
    Test(<<Use({obj_id})>>)

test_attr_info_by_idx(fcpl, fapl) ==
    Test(
      <<Make("sid", {}), Make("dcpl", {"dcpl_g"}), Use({"dcpl"})>>
      \o Twice(
             <<Create("fid", "tattr.h5", {fapl, fcpl}), Use({"dcpl"}),
               New("dset1", "fid", {"dcpl", "sid"}), New("dset2", "fid", {"dcpl", "sid"}),
               New("dset3", "fid", {"dcpl", "sid"})>>
             \o Twice(
                    Twice(
                        <<Unchecked(Use({"dset3"}))>>
                        \o Twice(
                               <<New("attr", "dset3", {"sid"}), Use({"attr"}),
                                 Close("attr")>>
                               \o attr_info_by_idx_check("dset3")))
                    \o <<Unchecked(Use({"dset3"}))>>)
             \o <<Close("dset1"), Close("dset2"), Close("dset3"), Close("fid")>>)
      \o <<Close("dcpl"), Close("sid")>>)

test_attr_delete_by_idx(fcpl, fapl) ==
    Test(
      Needs({"CREATION_ORDER"},
          <<Make("sid", {}), Make("dcpl", {"dcpl_g"}), Use({"dcpl"})>>
          \o Twice(
                 <<Create("fid", "tattr.h5", {fapl, fcpl}), Use({"dcpl"}),
                   New("dset1", "fid", {"dcpl", "sid"}),
                   New("dset2", "fid", {"dcpl", "sid"}),
                   New("dset3", "fid", {"dcpl", "sid"})>>
                 \o Twice(
                        <<Unchecked(Use({"dset3"}))>>
                        \o Twice(
                               <<New("attr", "dset3", {"sid"}), Use({"attr"}),
                                 Close("attr")>>
                               \o attr_info_by_idx_check("dset3"))
                        \o <<Unchecked(Use({"dset3"}))>>)
                 \o <<Use({"dset3"})>>
                 \o Twice(
                        Twice(
                            <<New("attr", "dset3", {"sid"}), Use({"attr"}), Close("attr")>>
                            \o attr_info_by_idx_check("dset3"))
                        \o <<Unchecked(Use({"dset3"}))>>)
                 \o <<Use({"dset3"})>>
                 \o Twice(
                        <<New("attr", "dset3", {"sid"}), Use({"attr"}), Close("attr")>>
                        \o attr_info_by_idx_check("dset3"))
                 \o <<Use({"dset3"}), Close("dset1"), Close("dset2"), Close("dset3"),
                      Close("fid")>>)
          \o <<Close("dcpl"), Close("sid")>>))

attr_iterate_check(fid, obj_id) ==
    Test(Needs({"ITERATE"}, <<Use({fid, obj_id})>>))

test_attr_iterate2(fcpl, fapl) ==
    Test(
      Needs({"CREATION_ORDER"},
          <<Make("sid", {}), Make("dcpl", {"dcpl_g"}), Use({"dcpl"})>>
          \o Twice(
                 <<Create("fid", "tattr.h5", {fapl, fcpl}), Use({"dcpl"}),
                   New("dset1", "fid", {"dcpl", "sid"}),
                   New("dset2", "fid", {"dcpl", "sid"}),
                   New("dset3", "fid", {"dcpl", "sid"})>>
                 \o Twice(
                        <<Use({"dset3", "fid"})>>
                        \o Twice(
                               <<New("attr", "dset3", {"sid"}), Use({"attr"}),
                                 Close("attr")>>
                               \o attr_info_by_idx_check("dset3"))
                        \o Needs({"ITERATE"},
                               <<Unchecked(Use({"dset3", "fid"}))>>
                               \o attr_iterate_check("fid", "dset3")))
                 \o Twice(
                        Twice(
                            <<New("attr", "dset3", {"sid"}), Use({"attr"}), Close("attr")>>
                            \o attr_info_by_idx_check("dset3"))
                        \o Needs({"ITERATE"},
                               <<Unchecked(Use({"dset3", "fid"}))>>
                               \o attr_iterate_check("fid", "dset3")))
                 \o <<Close("dset1"), Close("dset2"), Close("dset3"), Close("fid")>>)
          \o <<Close("dcpl"), Close("sid")>>))

attr_open_by_idx_check(obj_id) ==
    Test(Twice(<<Open("attr_id", obj_id, {}), Use({"attr_id"}), Close("attr_id")>>))

test_attr_open_by_idx(fcpl, fapl) ==
    Test(
      Needs({"CREATION_ORDER"},
          <<Make("sid", {}), Make("dcpl", {"dcpl_g"}), Use({"dcpl"})>>
          \o Twice(
                 <<Create("fid", "tattr.h5", {fapl, fcpl}), Use({"dcpl"}),
                   New("dset1", "fid", {"dcpl", "sid"}),
                   New("dset2", "fid", {"dcpl", "sid"}),
                   New("dset3", "fid", {"dcpl", "sid"})>>
                 \o Twice(
                        Twice(
                            <<New("attr", "dset3", {"sid"}), Use({"attr"}), Close("attr")>>
                            \o attr_info_by_idx_check("dset3"))
                        \o attr_open_by_idx_check("dset3"))
                 \o <<Close("dset1"), Close("dset2"), Close("dset3"), Close("fid")>>)
          \o <<Close("dcpl"), Close("sid")>>))

attr_open_check(fid, obj_id) ==
    Test(
      Twice(
          <<Open("attr_id", obj_id, {}), Use({"attr_id"}), Close("attr_id"),
            Open("attr_id", obj_id, {}), Use({"attr_id"}), Close("attr_id"),
            Open("attr_id", fid, {}), Use({"attr_id"}), Close("attr_id")>>))

test_attr_open_by_name(fcpl, fapl) ==
    Test(
      <<Make("sid", {}), Make("dcpl", {"dcpl_g"}), Use({"dcpl"})>>
      \o Twice(
             <<Create("fid", "tattr.h5", {fapl, fcpl}), Use({"dcpl"}),
               New("dset1", "fid", {"dcpl", "sid"}), New("dset2", "fid", {"dcpl", "sid"}),
               New("dset3", "fid", {"dcpl", "sid"})>>
             \o Twice(
                    Twice(
                        <<New("attr", "dset3", {"sid"}), Use({"attr"}), Close("attr")>>
                        \o attr_info_by_idx_check("dset3"))
                    \o attr_open_check("fid", "dset3"))
             \o <<Close("dset1"), Close("dset2"), Close("dset3"), Close("fid")>>)
      \o <<Close("dcpl"), Close("sid")>>)

test_attr_create_by_name(fcpl, fapl) ==
    Test(
      <<Make("sid", {}), Make("dcpl", {"dcpl_g"}), Use({"dcpl"})>>
      \o Twice(
             <<Create("fid", "tattr.h5", {fapl, fcpl}), Use({"dcpl"}),
               New("dset1", "fid", {"dcpl", "sid"}), New("dset2", "fid", {"dcpl", "sid"}),
               New("dset3", "fid", {"dcpl", "sid"})>>
             \o Twice(
                    Twice(
                        <<New("attr", "fid", {"sid"}), Use({"attr"}), Close("attr")>>
                        \o attr_info_by_idx_check("dset3"))
                    \o attr_open_check("fid", "dset3"))
             \o <<Close("dset1"), Close("dset2"), Close("dset3"), Close("fid")>>)
      \o <<Close("dcpl"), Close("sid")>>)

test_attr_bug1(fcpl, fapl) ==
    Test(
      <<Make("sid", {}), Create("fid", "tattr.h5", {fapl, fcpl}), New("gid", "fid", {}),
        Close("gid"), Close("fid"), OpenFile("fid", "tattr.h5", {fapl}),
        New("gid", "fid", {}), Close("gid"), Open("gid", "fid", {}),
        New("aid", "gid", {"sid"}), Close("aid"), Close("gid"), Close("fid"),
        OpenFile("fid", "tattr.h5", {fapl}), New("gid", "fid", {}), Close("gid"),
        Use({"fid"}), Open("gid", "fid", {}), New("aid", "gid", {"sid"}), Close("aid"),
        Close("gid"), Close("fid"), OpenFile("fid", "tattr.h5", {fapl}),
        Open("gid", "fid", {}), Use({"gid"}), New("aid", "gid", {"sid"}), Close("aid"),
        Use({"gid"}), New("aid", "gid", {"sid"}), Close("aid"), Close("gid"), Close("fid"),
        Close("sid")>>)

test_attr_bug2(fcpl, fapl) ==
    Test(
      <<Make("gcpl", {}), Use({"gcpl"}), Make("sid", {}),
        Create("fid", "tattr.h5", {fapl, fcpl}), New("gid", "fid", {"gcpl"})>>
      \o Twice(<<New("aid", "gid", {"sid"}), Close("aid")>>)
      \o <<Use({"gid"}), Close("gid"), Close("fid"), Close("sid"),
           OpenFile("fid", "tattr.h5", {fapl}), Open("gid", "fid", {}),
           Open("aid", "gid", {}), Make("tid", {"aid"}), Use({"tid"}), Close("tid"),
           Close("aid"), Close("gid"), Close("fid"), Make("sid", {}),
           Create("fid", "tattr.h5", {fapl, fcpl}), New("gid", "fid", {"gcpl"})>>
      \o Twice(<<New("aid", "gid", {"sid"}), Close("aid")>>)
      \o <<Use({"gid"}), Close("gid"), Close("fid"), Close("sid"), Close("gcpl")>>)

test_attr_bug3(fcpl, fapl) ==
    Test(
      <<Make("sid1", {}), Make("sid2", {}), Create("fid", "tattr.h5", {fapl, fcpl}),
        Make("tid1", {}), Unchecked(Make("tid2", {})), Commit("tid1", "fid", {}),
        New("did", "fid", {"dcpl_g", "sid2", "tid2"}), New("aid1", "tid1", {"sid1"}),
        New("aid2", "did", {"sid2", "tid2"}), Close("aid1"), Close("aid2"),
        Open("aid1", "tid1", {}), Open("aid2", "did", {}), Use({"aid1", "aid2"}),
        Close("aid1"), Close("aid2"), Use({"did", "tid1"}), New("aid1", "tid1", {"sid1"}),
        New("aid2", "did", {"sid2", "tid2"}), Use({"did", "tid1"}), Close("sid1"),
        Close("sid2"), Close("tid2"), Close("tid1"), Close("did"), Use({"fid"}),
        Close("aid1"), Close("aid2"), Close("fid")>>)

test_attr_bug4(fcpl, fapl) ==
    Test(
      <<Make("sid", {}), Create("fid", "tattr.h5", {fapl, fcpl}), Open("gid", "fid", {}),
        Make("tid", {}), Commit("tid", "fid", {}),
        New("did", "fid", {"dcpl_g", "sid", "tid"}), New("aid1", "gid", {"sid", "tid"}),
        New("aid2", "did", {"sid", "tid"}), New("aid3", "tid", {"sid"}), Close("aid3"),
        Close("aid2"), Close("aid1"), Close("did"), Close("tid"), Close("gid"),
        Close("fid"), Close("sid")>>)

test_attr_bug5(fcpl, fapl) ==
    Test(
      <<Make("sid", {}), Create("fid1", "tattr.h5", {fapl, fcpl}),
        Open("gid1", "fid1", {}), Make("tid1", {}), Commit("tid1", "fid1", {}),
        New("did1", "fid1", {"dcpl_g", "sid", "tid1"}),
        New("aidg1", "gid1", {"sid", "tid1"}), New("aidd1", "did1", {"sid", "tid1"}),
        New("aidt1", "tid1", {"sid"}), Close("aidt1"), Close("aidd1"), Close("aidg1"),
        Close("did1"), Close("tid1"), Close("gid1"), Close("fid1"), Close("sid"),
        OpenFile("fid1", "tattr.h5", {fapl}), OpenFile("fid2", "tattr.h5", {fapl}),
        Open("gid1", "fid1", {}), Open("gid2", "fid2", {}), Open("aidg1", "gid1", {}),
        Unchecked(Open("aidg2", "gid2", {})), Open("did1", "fid1", {}),
        Open("did2", "fid2", {}), Open("aidd1", "did1", {}),
        Unchecked(Open("aidd2", "did2", {})), Open("tid1", "fid1", {}),
        Open("tid2", "fid2", {}), Open("aidt1", "tid1", {}), Open("aidt2", "tid2", {}),
        Close("aidg1"), Close("aidg2"), Close("aidd1"), Close("aidd2"), Close("aidt1"),
        Close("aidt2"), Close("gid1"), Close("gid2"), Close("did1"), Close("did2"),
        Close("tid1"), Close("tid2"), Close("fid1"), Close("fid2")>>)

test_attr_bug6(fcpl, fapl) ==
    Test(
      <<Create("fid", "tattr.h5", {fapl, fcpl}), Open("gid", "fid", {}), Make("sid", {}),
        New("aid1", "gid", {"sid"}), Close("aid1"), Open("aid2", "gid", {}), Use({"aid2"}),
        Close("aid2"), Close("gid"), Close("fid"), Close("sid")>>)

test_attr_bug8(fcpl, fapl) ==
    Test(
      <<Create("fid", "tattr.h5", {fapl, fcpl}), New("gid", "fid", {}),
        Use({"fid", "gid"}), Close("fid"), Close("gid"),
        OpenFile("fid", "tattr.h5", {fapl}), Open("gid", "fid", {}),
        Open("oid", "gid", {}), Use({"oid"}), Close("fid"), Close("gid"), Close("oid"),
        OpenFile("fid", "tattr.h5", {fapl}), Open("gid", "fid", {}), Make("sid", {}),
        New("aid", "gid", {"sid"}), Close("aid"), Close("fid"), Close("gid"),
        OpenFile("fid", "tattr.h5", {fapl}), Open("gid", "fid", {}),
        Open("oid", "gid", {}), Use({"gid", "oid"}), Close("oid"), Close("gid"),
        Close("sid"), Close("fid")>>)

test_attr_bug9(fcpl, fapl) ==
    Test(
      <<Make("sid", {}), Use({fcpl})>>
      \o Twice(
             <<Create("fid", "tattr.h5", {fapl, fcpl}), New("gid", "fid", {}),
               Close("gid"), Open("gid", "fid", {})>>
             \o Twice(<<New("aid", "gid", {"sid"}), Close("aid"), Use({"gid"})>>)
             \o <<Close("gid"), Close("fid")>>)
      \o <<Close("sid")>>)

test_attr_bug10(fcpl, fapl) ==
    Test(
      <<Make("sid", {}), Make("tid", {}), Use({"tid"}),
        Create("fid1", "tattr.h5", {fapl, fcpl}), New("aid1", "fid1", {"sid", "tid"}),
        OpenFile("fid2", "tattr.h5", {fapl}), Open("aid2", "fid2", {}), Close("aid2"),
        Close("fid2"), Use({"aid1", "tid"}), Close("aid1"), Close("fid1"), Close("tid"),
        Close("sid")>>)

test_attr_dense_create(fcpl, fapl) ==
    Test(
      <<Create("fid", "tattr.h5", {fapl, fcpl}), Close("fid"),
        OpenFile("fid", "tattr.h5", {fapl}), Make("sid", {}), Make("dcpl", {"dcpl_g"}),
        New("dataset", "fid", {"dcpl", "sid"}), Use({"dcpl"}), Close("dcpl")>>
      \o Twice(<<New("attr", "dataset", {"sid"}), Use({"attr"}), Close("attr")>>)
      \o <<New("attr", "dataset", {"sid"}), Use({"attr"}), Close("attr"), Close("sid"),
           Close("dataset"), Use({"fid"}), Close("fid")>>)

test_attr_dense_verify(loc_id) ==
    Test(Twice(<<Open("attr", loc_id, {}), Use({"attr"}), Close("attr")>>))

test_attr_dense_open(fcpl, fapl) ==
    Test(
      <<Create("fid", "tattr.h5", {fapl, fcpl}), Close("fid"),
        OpenFile("fid", "tattr.h5", {fapl}), Make("sid", {}), Make("dcpl", {"dcpl_g"}),
        Use({"dcpl"}), New("dataset", "fid", {"dcpl", "sid"}), Use({"dcpl"}),
        Close("dcpl")>>
      \o Twice(
             <<New("attr", "dataset", {"sid"}), Use({"attr"}), Close("attr")>>
             \o test_attr_dense_verify("dataset"))
      \o <<New("attr", "dataset", {"sid"}), Use({"attr"}), Close("attr"), Close("sid")>>
      \o test_attr_dense_verify("dataset")
      \o <<Close("dataset"), Use({"fid"}), Close("fid")>>)

test_attr_dense_delete(fcpl, fapl) ==
    Test(
      When("default driver",
          <<Make("min_fcpl", {fcpl}), Use({"min_fcpl"}),
            Create("fid", "tattr.h5", {"min_fcpl", fapl}), Close("min_fcpl"), Close("fid"),
            OpenFile("fid", "tattr.h5", {fapl}), Make("sid", {}), Make("dcpl", {"dcpl_g"}),
            Use({"dcpl"}), New("dataset", "fid", {"dcpl", "sid"}), Use({"dcpl"}),
            Close("dcpl")>>
          \o Twice(
                 <<New("attr", "dataset", {"sid"}), Use({"attr"}), Close("attr"),
                   Use({"dataset"})>>)
          \o <<Close("sid"), Close("dataset"), Close("fid"),
               OpenFile("fid", "tattr.h5", {fapl}), Open("dataset", "fid", {})>>
          \o Twice(<<Use({"dataset"})>> \o test_attr_dense_verify("dataset"))
          \o <<Close("dataset"), Use({"fid"}), Close("fid")>>))

test_attr_dense_rename(fcpl, fapl) ==
    Test(
      When("default driver",
          <<Make("min_fcpl", {fcpl}), Use({"min_fcpl"}),
            Create("fid", "tattr.h5", {"min_fcpl", fapl}), Close("min_fcpl"), Close("fid"),
            OpenFile("fid", "tattr.h5", {fapl}), Make("sid", {}), Make("dcpl", {"dcpl_g"}),
            Use({"dcpl"})>>
          \o Twice(
                 <<Use({"dcpl"}), New("dataset", "fid", {"dcpl", "sid"})>>
                 \o Twice(
                        <<New("attr", "dataset", {"sid"}), Use({"attr"}), Close("attr"),
                          Use({"dataset", "fid"})>>)
                 \o <<Close("dataset"), Use({"fid"})>>)
          \o <<Close("sid"), Close("dcpl"), Close("fid"),
               OpenFile("fid", "tattr.h5", {fapl}), Open("dataset", "fid", {})>>
          \o Twice(<<Open("attr", "dataset", {}), Use({"attr"}), Close("attr")>>)
          \o <<Close("dataset"), Use({"fid"}), Close("fid")>>))

test_attr_dense_unlink(fcpl, fapl) ==
    Test(
      When("default driver",
          <<Make("min_fcpl", {fcpl}), Use({"min_fcpl"}),
            Create("fid", "tattr.h5", {"min_fcpl", fapl}), Close("min_fcpl"), Close("fid"),
            OpenFile("fid", "tattr.h5", {fapl}), Make("sid", {}), Make("dcpl", {"dcpl_g"}),
            New("dataset", "fid", {"dcpl", "sid"}), Use({"dcpl"}), Close("dcpl")>>
          \o Twice(
                 <<New("attr", "dataset", {"sid"}), Use({"attr"}), Close("attr"),
                   Use({"dataset"})>>)
          \o <<Close("sid"), Close("dataset"), Close("fid"),
               OpenFile("fid", "tattr.h5", {fapl}), Use({"fid"}), Close("fid")>>))

test_attr_dense_limits(fcpl, fapl) ==
    Test(
      <<Create("fid", "tattr.h5", {fapl, fcpl}), Close("fid"),
        OpenFile("fid", "tattr.h5", {fapl}), Make("sid", {}), Make("dcpl", {"dcpl_g"}),
        Use({"dcpl"}), New("dataset", "fid", {"dcpl", "sid"}), Use({"dcpl"}),
        Close("dcpl"), New("attr", "dataset", {"sid"}), Use({"attr"}), Close("attr"),
        New("attr", "dataset", {"sid"}), Use({"attr"}), Close("attr"), Use({"dataset"}),
        Close("sid"), Close("dataset"), Use({"fid"}), Close("fid")>>)

test_attr_dense_dup_ids(fcpl, fapl) ==
    Test(
      <<Create("fid", "tattr.h5", {fapl, fcpl}), Close("fid"),
        OpenFile("fid", "tattr.h5", {fapl}), Make("sid", {}), Make("dcpl", {"dcpl_g"}),
        New("dataset", "fid", {"dcpl", "sid"}), Use({"dcpl"}), Close("dcpl")>>
      \o Twice(<<New("attr", "dataset", {"sid"}), Use({"attr"}), Close("attr")>>)
      \o <<Make("sid2", {}), New("attr", "dataset", {"sid2"}),
           Open("attr2", "dataset", {}), Close("attr"), Close("attr2"), Close("dataset"),
           Close("fid"), OpenFile("fid", "tattr.h5", {fapl}), Open("dataset", "fid", {}),
           Open("attr", "dataset", {}), Use({"attr"}),
           Unchecked(Open("attr2", "dataset", {})), Use({"attr2"}), Close("attr2"),
           Close("attr"), Close("dataset"), Close("fid"),
           OpenFile("fid", "tattr.h5", {fapl}), Open("dataset", "fid", {}),
           Open("attr", "dataset", {}), Use({"attr"}),
           Unchecked(Open("attr2", "dataset", {})), Use({"attr", "attr2"}), Close("attr"),
           Close("attr2"), Close("dataset"), Close("fid"),
           OpenFile("fid", "tattr.h5", {fapl}), Open("dataset", "fid", {}),
           Open("attr", "dataset", {}), Unchecked(Open("attr2", "dataset", {})),
           Use({"attr", "attr2"}), Close("attr"), Close("attr2"), Close("dataset"),
           Close("fid"), OpenFile("fid", "tattr.h5", {fapl}), Open("dataset", "fid", {}),
           Open("attr", "dataset", {}), Use({"dataset"}),
           Unchecked(Open("attr2", "dataset", {})), Use({"attr", "attr2"}), Close("attr"),
           Close("attr2"), Close("dataset"), Close("fid"),
           OpenFile("fid", "tattr.h5", {fapl}), Open("dataset", "fid", {}),
           Open("attr", "dataset", {})>>
      \o Twice(
             <<New("add_attr", "dataset", {"sid"}), Use({"add_attr"}), Close("add_attr")>>)
      \o <<Unchecked(Open("attr2", "dataset", {})), Use({"attr", "attr2"}), Close("attr"),
           Close("attr2"), Close("dataset"), Close("fid"),
           OpenFile("fid", "tattr.h5", {fapl}), New("gid1", "fid", {}), Use({"gid1"})>>
      \o Twice(<<New("attr", "gid1", {"sid"}), Use({"attr"}), Close("attr")>>)
      \o <<New("attr", "gid1", {"sid2"}), Open("gid2", "fid", {}),
           Open("attr2", "gid2", {}), Use({"attr", "attr2"}), Close("attr"),
           Close("attr2"), Close("gid1"), Close("gid2"), Close("sid"), Close("sid2"),
           Close("fid")>>)

test_attr_corder_create_basic(fcpl, fapl) ==
    Test(
      <<Create("fid", "tattr.h5", {fapl, fcpl}), Make("dcpl", {"dcpl_g"}), Use({"dcpl"}),
        Make("sid", {}), New("dataset", "fid", {"dcpl", "sid"}), Close("sid"),
        Close("dataset"), Close("dcpl"), Close("fid"), OpenFile("fid", "tattr.h5", {fapl}),
        Open("dataset", "fid", {}), Make("dcpl", {"dataset"}), Use({"dcpl"}),
        Close("dcpl"), Close("dataset"), Close("fid")>>)

test_attr_corder_create_compact(fcpl, fapl) ==
    Test(
      <<Create("fid", "tattr.h5", {fapl, fcpl}), Make("dcpl", {"dcpl_g"}), Use({"dcpl"}),
        Make("sid", {}), New("dset1", "fid", {"dcpl", "sid"}),
        New("dset2", "fid", {"dcpl", "sid"}), New("dset3", "fid", {"dcpl", "sid"})>>
      \o Twice(<<New("attr", "dset3", {"sid"}), Use({"attr"}), Close("attr")>>)
      \o <<Close("dset1"), Close("dset2"), Close("dset3"), Close("sid"), Close("dcpl"),
           Close("fid"), OpenFile("fid", "tattr.h5", {fapl}), Open("dset1", "fid", {}),
           Open("dset2", "fid", {}), Open("dset3", "fid", {}), Use({"dset3"}),
           Close("dset1"), Close("dset2"), Close("dset3"), Close("fid")>>)

test_attr_corder_create_dense(fcpl, fapl) ==
    Test(
      <<Create("fid", "tattr.h5", {fapl, fcpl}), Make("dcpl", {"dcpl_g"}), Use({"dcpl"}),
        Make("sid", {}), New("dset1", "fid", {"dcpl", "sid"}),
        New("dset2", "fid", {"dcpl", "sid"}), New("dset3", "fid", {"dcpl", "sid"})>>
      \o Twice(
             Twice(<<New("attr", "dset3", {"sid"}), Use({"attr"}), Close("attr")>>)
             \o <<New("attr", "dset3", {"sid"}), Use({"attr"}), Close("attr")>>)
      \o <<Close("dset1"), Close("dset2"), Close("dset3"), Close("sid"), Close("dcpl"),
           Close("fid"), OpenFile("fid", "tattr.h5", {fapl}), Open("dset1", "fid", {}),
           Open("dset2", "fid", {}), Open("dset3", "fid", {}), Use({"dset3"}),
           Close("dset1"), Close("dset2"), Close("dset3"), Close("fid")>>)

test_attr_corder_create_reopen(fcpl, fapl) ==
    Test(
      <<Make("sid", {}), Create("fid", "tattr.h5", {fapl, fcpl}), Make("gcpl_id", {}),
        Use({"gcpl_id"}), New("gid", "fid", {"gcpl_id"}), New("aid", "gid", {"sid"}),
        Use({"aid"}), Close("aid"), New("aid", "gid", {"sid"}), Use({"aid"}), Close("aid"),
        Close("gid"), Close("gcpl_id"), Close("fid"), OpenFile("fid", "tattr.h5", {}),
        Open("gid", "fid", {}), Unchecked(Use({"gid"})), New("aid", "gid", {"sid"}),
        Use({"aid"}), Close("aid"), New("aid", "gid", {"sid"}), Use({"aid"}), Close("aid"),
        Close("gid"), Close("fid"), Close("sid")>>)

test_attr_corder_transition(fcpl, fapl) ==
    Test(
      <<Create("fid", "tattr.h5", {fapl, fcpl}), Make("dcpl", {"dcpl_g"}), Use({"dcpl"}),
        Make("sid", {}), New("dset1", "fid", {"dcpl", "sid"}),
        New("dset2", "fid", {"dcpl", "sid"}), New("dset3", "fid", {"dcpl", "sid"}),
        Close("dset1"), Close("dset2"), Close("dset3"), Close("dcpl"), Close("fid"),
        OpenFile("fid", "tattr.h5", {fapl}), Open("dset1", "fid", {}),
        Open("dset2", "fid", {}), Open("dset3", "fid", {})>>
      \o Twice(
             Twice(<<New("attr", "dset3", {"sid"}), Use({"attr"}), Close("attr")>>)
             \o <<New("attr", "dset3", {"sid"}), Use({"attr"}), Close("attr"),
                  Use({"dset3"})>>
             \o Twice(<<New("attr", "dset3", {"sid"}), Use({"attr"}), Close("attr")>>))
      \o <<Close("dset1"), Close("dset2"), Close("dset3"), Close("fid"),
           OpenFile("fid", "tattr.h5", {fapl}), Open("dset1", "fid", {}),
           Open("dset2", "fid", {}), Open("dset3", "fid", {})>>
      \o Twice(
             <<Use({"dset3"})>>
             \o Twice(<<New("attr", "dset3", {"sid"}), Use({"attr"}), Close("attr")>>)
             \o <<Use({"dset3"})>>)
      \o <<Close("dset1"), Close("dset2"), Close("dset3"), Close("fid"), Close("sid")>>)

test_attr_corder_delete(fcpl, fapl) ==
    Test(
      <<Make("sid", {}), Make("dcpl", {"dcpl_g"}), Use({"dcpl"})>>
      \o BothWays("reopen_file",
             <<Create("fid", "tattr.h5", {fapl, fcpl}),
               New("dset1", "fid", {"dcpl", "sid"}), New("dset2", "fid", {"dcpl", "sid"}),
               New("dset3", "fid", {"dcpl", "sid"})>>
             \o Twice(<<New("attr", "dset3", {"sid"}), Use({"attr"}), Close("attr")>>)
             \o <<Close("dset1"), Close("dset2"), Close("dset3"), Use({"fid"}),
                  Close("fid")>>
             \o When("reopen_file",
                    <<OpenFile("fid", "tattr.h5", {fapl}), Use({"fid"}), Close("fid")>>))
      \o <<Close("dcpl"), Close("sid")>>)

test_attr_shared_write(fcpl, fapl) ==
    Test(
      <<Make("sid", {}), Make("big_sid", {})>>
      \o BothWays("odd attribute",
             <<Make("my_fcpl", {fcpl}), Make("attr_tid", {}), Use({"my_fcpl"}),
               Create("fid", "tattr.h5", {"my_fcpl", fapl}), Close("my_fcpl"),
               Close("fid"), OpenFile("fid", "tattr.h5", {fapl})>>
             \o When("committed datatype", <<Commit("attr_tid", "fid", {})>>)
             \o <<Make("dcpl", {"dcpl_g"}), New("dataset", "fid", {"dcpl", "sid"}),
                  New("dataset2", "fid", {"dcpl", "sid"}), Use({"dcpl"}), Close("dcpl")>>
             \o BothWays("odd attribute",
                    When("odd attribute",
                        <<New("attr", "dataset", {"attr_tid", "sid"}),
                          Use({"attr", "attr_tid"})>>)
                    \o Unless("odd attribute",
                           <<New("attr", "dataset", {"attr_tid", "big_sid"}),
                             Use({"attr", "attr_tid"})>>)
                    \o <<Close("attr")>>
                    \o When("odd attribute",
                           <<New("attr", "dataset2", {"attr_tid", "sid"}),
                             Use({"attr", "attr_tid"})>>)
                    \o Unless("odd attribute",
                           <<New("attr", "dataset2", {"attr_tid", "big_sid"}),
                             Use({"attr", "attr_tid"})>>)
                    \o <<Close("attr")>>)
             \o <<Close("attr_tid"), Close("dataset"), Close("dataset2"), Use({"fid"}),
                  Close("fid")>>)
      \o <<Close("sid"), Close("big_sid")>>)

test_attr_shared_rename(fcpl, fapl) ==
    Test(
      <<Make("sid", {}), Make("big_sid", {})>>
      \o BothWays("odd attribute",
             <<Make("my_fcpl", {fcpl}), Make("attr_tid", {}), Use({"my_fcpl"}),
               Create("fid", "tattr.h5", {"my_fcpl", fapl}), Close("my_fcpl"),
               Close("fid"), OpenFile("fid", "tattr.h5", {fapl})>>
             \o When("committed datatype", <<Commit("attr_tid", "fid", {})>>)
             \o <<Make("dcpl", {"dcpl_g"}), New("dataset", "fid", {"dcpl", "sid"}),
                  New("dataset2", "fid", {"dcpl", "sid"}), Use({"dcpl"}), Close("dcpl")>>
             \o BothWays("odd attribute",
                    When("odd attribute",
                        <<New("attr", "dataset", {"attr_tid", "sid"}),
                          Use({"attr", "attr_tid"})>>)
                    \o Unless("odd attribute",
                           <<New("attr", "dataset", {"attr_tid", "big_sid"}),
                             Use({"attr", "attr_tid"})>>)
                    \o <<Close("attr")>>
                    \o When("odd attribute",
                           <<New("attr", "dataset2", {"attr_tid", "sid"}),
                             Use({"attr", "attr_tid"})>>)
                    \o Unless("odd attribute",
                           <<New("attr", "dataset2", {"attr_tid", "big_sid"}),
                             Use({"attr", "attr_tid"})>>)
                    \o <<Close("attr"), Use({"fid"}), Open("attr", "dataset2", {}),
                         Close("attr"), Open("attr", "dataset", {}), Close("attr"),
                         Use({"fid"}), Open("attr", "dataset2", {}), Close("attr"),
                         Open("attr", "dataset", {}), Close("attr")>>)
             \o <<Close("attr_tid"), Close("dataset"), Close("dataset2"), Use({"fid"}),
                  Close("fid")>>)
      \o <<Close("sid"), Close("big_sid")>>)

test_attr_shared_delete(fcpl, fapl) ==
    Test(
      <<Make("sid", {}), Make("big_sid", {})>>
      \o BothWays("odd attribute",
             <<Make("my_fcpl", {fcpl}), Make("attr_tid", {}), Use({"my_fcpl"}),
               Create("fid", "tattr.h5", {"my_fcpl", fapl}), Close("my_fcpl"),
               Close("fid"), OpenFile("fid", "tattr.h5", {fapl})>>
             \o When("committed datatype", <<Commit("attr_tid", "fid", {})>>)
             \o <<Make("dcpl", {"dcpl_g"}), New("dataset", "fid", {"dcpl", "sid"}),
                  New("dataset2", "fid", {"dcpl", "sid"}), Use({"dcpl"}), Close("dcpl")>>
             \o BothWays("odd attribute",
                    When("odd attribute",
                        <<New("attr", "dataset", {"attr_tid", "sid"}),
                          Use({"attr", "attr_tid"})>>)
                    \o Unless("odd attribute",
                           <<New("attr", "dataset", {"attr_tid", "big_sid"}),
                             Use({"attr", "attr_tid"})>>)
                    \o <<Close("attr")>>
                    \o When("odd attribute",
                           <<New("attr", "dataset2", {"attr_tid", "sid"}),
                             Use({"attr", "attr_tid"})>>)
                    \o Unless("odd attribute",
                           <<New("attr", "dataset2", {"attr_tid", "big_sid"}),
                             Use({"attr", "attr_tid"})>>)
                    \o <<Close("attr")>>)
             \o Twice(<<Use({"fid"}), Open("attr", "dataset", {}), Close("attr")>>)
             \o <<Close("attr_tid"), Close("dataset"), Close("dataset2"), Use({"fid"}),
                  Close("fid")>>)
      \o <<Close("sid"), Close("big_sid")>>)

test_attr_shared_unlink(fcpl, fapl) ==
    Test(
      <<Make("sid", {}), Make("big_sid", {})>>
      \o BothWays("odd attribute",
             <<Make("my_fcpl", {fcpl}), Make("attr_tid", {}), Use({"my_fcpl"}),
               Create("fid", "tattr.h5", {"my_fcpl", fapl}), Close("my_fcpl"),
               Close("fid"), OpenFile("fid", "tattr.h5", {fapl})>>
             \o When("committed datatype", <<Commit("attr_tid", "fid", {})>>)
             \o <<Make("dcpl", {"dcpl_g"}), New("dataset", "fid", {"dcpl", "sid"}),
                  New("dataset2", "fid", {"dcpl", "sid"}), Use({"dcpl"}), Close("dcpl")>>
             \o BothWays("odd attribute",
                    When("odd attribute",
                        <<New("attr", "dataset", {"attr_tid", "sid"}),
                          Use({"attr", "attr_tid"})>>)
                    \o Unless("odd attribute",
                           <<New("attr", "dataset", {"attr_tid", "big_sid"}),
                             Use({"attr", "attr_tid"})>>)
                    \o <<Close("attr")>>
                    \o When("odd attribute",
                           <<New("attr", "dataset2", {"attr_tid", "sid"}),
                             Use({"attr", "attr_tid"})>>)
                    \o Unless("odd attribute",
                           <<New("attr", "dataset2", {"attr_tid", "big_sid"}),
                             Use({"attr", "attr_tid"})>>)
                    \o <<Close("attr")>>)
             \o <<Close("attr_tid"), Close("dataset2"), Use({"fid"})>>
             \o Twice(<<Open("attr", "dataset", {}), Close("attr")>>)
             \o <<Close("dataset"), Use({"fid"}), Close("fid")>>)
      \o <<Close("sid"), Close("big_sid")>>)

\* The body of the loop over new_format.  Attributes are shared only in the new format.
test_attr_format(new_format, my_fapl) ==
    LET my_fcpl(use_shared) == IF new_format /\ use_shared THEN "fcpl2" ELSE "fcpl"
        Basic(fcpl) ==
            test_attr_big(fcpl, my_fapl) \o test_attr_null_space(fcpl, my_fapl)
            \o test_attr_deprec("fcpl", my_fapl) \o test_attr_many(fcpl, my_fapl)
            \o test_attr_info_null_info_pointer(fcpl, my_fapl)
            \o test_attr_rename_invalid_name(fcpl, my_fapl)
            \o test_attr_get_name_invalid_buf(fcpl, my_fapl)
            \o test_attr_info_by_idx(fcpl, my_fapl)
            \o test_attr_delete_by_idx(fcpl, my_fapl) \o test_attr_iterate2(fcpl, my_fapl)
            \o test_attr_open_by_idx(fcpl, my_fapl) \o test_attr_open_by_name(fcpl, my_fapl)
            \o test_attr_create_by_name(fcpl, my_fapl) \o test_attr_bug1(fcpl, my_fapl)
            \o test_attr_bug2(fcpl, my_fapl) \o test_attr_bug3(fcpl, my_fapl)
            \o test_attr_bug4(fcpl, my_fapl) \o test_attr_bug5(fcpl, my_fapl)
            \o test_attr_bug6(fcpl, my_fapl) \o test_attr_bug8(fcpl, my_fapl)
            \o test_attr_bug9(fcpl, my_fapl) \o test_attr_bug10(fcpl, my_fapl)
        Dense(fcpl) ==
            test_attr_dense_create(fcpl, my_fapl) \o test_attr_dense_open(fcpl, my_fapl)
            \o test_attr_dense_delete(fcpl, my_fapl)
            \o test_attr_dense_rename(fcpl, my_fapl)
            \o test_attr_dense_unlink(fcpl, my_fapl)
            \o test_attr_dense_limits(fcpl, my_fapl)
            \o test_attr_dense_dup_ids(fcpl, my_fapl)
            \o test_attr_corder_create_basic(fcpl, my_fapl)
            \o test_attr_corder_create_compact(fcpl, my_fapl)
            \o test_attr_corder_create_dense(fcpl, my_fapl)
            \o test_attr_corder_create_reopen(fcpl, my_fapl)
            \o test_attr_corder_transition(fcpl, my_fapl)
            \o test_attr_corder_delete(fcpl, my_fapl)
        Shared(fcpl) ==
            test_attr_shared_write(fcpl, my_fapl) \o test_attr_shared_rename(fcpl, my_fapl)
            \o test_attr_shared_delete(fcpl, my_fapl)
            \o test_attr_shared_unlink(fcpl, my_fapl)
        Round(use_shared) ==
            LET fcpl == my_fcpl(use_shared) IN
            Basic(fcpl) \o (IF ~new_format THEN <<>>
                            ELSE Dense(fcpl) \o (IF use_shared THEN Shared(fcpl) ELSE <<>>))
    IN  test_attr_basic_write(my_fapl) \o test_attr_basic_read(my_fapl)
        \o test_attr_flush(my_fapl) \o test_attr_plist(my_fapl)
        \o test_attr_compound_write(my_fapl) \o test_attr_compound_read(my_fapl)
        \o test_attr_scalar_write(my_fapl) \o test_attr_scalar_read(my_fapl)
        \o test_attr_mult_write(my_fapl) \o test_attr_mult_read(my_fapl)
        \o test_attr_iterate(my_fapl) \o test_attr_delete(my_fapl)
        \o test_attr_dtype_shared(my_fapl) \o test_attr_duplicate_ids(my_fapl)
        \o Round(FALSE) \o Round(TRUE)

\* The property lists around the loops over minimize_dset_oh and new_format.
test_attr_lists(tests) ==
    Test(
      <<Make("fapl", {}), Make("fapl2", {"fapl"}), Use({"fapl2"}), Make("fcpl", {}),
        Make("fcpl2", {"fcpl"}), Use({"fcpl2"}), Make("dcpl_g", {}), Use({"dcpl_g"})>>
      \o tests
      \o <<Close("dcpl_g"), Close("fcpl"), Close("fcpl2"), Close("fapl"), Close("fapl2")>>)

test_attr == test_attr_lists(test_attr_format(FALSE, "fapl"))

\* The round that if (new_format) continue; leaves out.
test_attr_new_format == test_attr_lists(test_attr_format(TRUE, "fapl2"))

cleanup_attr ==
    Test(<<Unchecked(Delete("tattr.h5"))>>)

=============================================================================
