-------------------------------- MODULE th5s --------------------------------
\* th5s.c: the tests of dataspaces.
EXTENDS TestSteps

test_h5s_basic ==
    Test(
      <<Make("sid1", {}), Use({"sid1"}), Make("sid2", {}), Use({"sid1", "sid2"}),
        Close("sid1"), Close("sid2"), Make("sid1", {}), Unchecked(Use({"sid1"})),
        Close("sid1"), Create("fid1", "th5s3.h5", {}), Make("sid1", {}), Make("sid2", {}),
        New("dset1", "fid1", {"sid2"}), Use({"dset1", "sid1"}), Close("dset1"),
        Close("sid1"), Close("sid2"), Close("fid1")>>)

test_h5s_null ==
    Test(
      <<Create("fid", "th5s2.h5", {}), Make("sid", {}), Use({"sid"}),
        New("did", "fid", {"sid"}), Use({"did"}), New("attr", "did", {"sid"}),
        Use({"attr"}), Close("attr"), Close("did"), Use({"sid"}), Close("sid"),
        Close("fid"), OpenFile("fid", "th5s2.h5", {}), Open("did", "fid", {}),
        Make("dset_sid", {"did"}), Make("dset_sid2", {"dset_sid"}),
        Use({"did", "dset_sid2"}), Close("dset_sid"), Close("dset_sid2"),
        Open("attr", "did", {}), Make("attr_sid", {"attr"}), Use({"attr_sid"}),
        Close("attr_sid"), Use({"attr"}), Close("attr"), Close("did"), Close("fid")>>)

test_h5s_zero_dim ==
    Test(
      Twice(
          <<Make("sid1", {}), Close("sid1"), Make("sid1", {}), Use({"sid1"}),
            Make("sid_chunk", {}), Create("fid1", "th5s4.h5", {}), Make("plist_id", {}),
            Use({"plist_id"}), New("dset1", "fid1", {"plist_id", "sid1"}),
            Close("plist_id"), Use({"dset1", "fid1", "sid1"}), Close("dset1"),
            Make("plist_id", {}), Use({"plist_id"}),
            New("dset1", "fid1", {"plist_id", "sid_chunk"}), Use({"dset1", "fid1"}),
            Close("plist_id"), Close("dset1"), Make("plist_id", {}), Use({"plist_id"}),
            New("dset1", "fid1", {"plist_id", "sid1"}), Use({"dset1", "fid1"}),
            Close("plist_id"), Close("dset1"), Make("plist_id", {}), Use({"plist_id"}),
            New("dset1", "fid1", {"plist_id", "sid1"}), Use({"dset1", "fid1", "sid1"}),
            Close("plist_id"), Close("dset1"), New("attr", "fid1", {"sid1"}),
            Use({"attr", "fid1"}), Close("attr"), Use({"sid_chunk"}), Make("plist_id", {}),
            Use({"plist_id"}), New("dset1", "fid1", {"plist_id", "sid_chunk"}),
            Use({"dset1", "fid1"}), Close("plist_id"), Close("dset1"), Use({"sid_chunk"}),
            Close("sid_chunk"), Close("sid1"), Close("fid1"),
            OpenFile("fid1", "th5s4.h5", {}), Open("dset1", "fid1", {}),
            Make("sid1", {"dset1"}), Use({"dset1", "sid1"}), Close("dset1"), Close("sid1"),
            Open("attr", "fid1", {}), Make("attr_sid", {"attr"}),
            Use({"attr", "attr_sid"}), Close("attr"), Close("attr_sid"), Close("fid1")>>))

test_h5s_encode ==
    Test(
      <<Make("fapl", {}), Use({"fapl"}), Make("sid1", {}), Use({"fapl", "sid1"}),
        Make("decoded_sid1", {}), Use({"decoded_sid1"}), Close("sid1"),
        Close("decoded_sid1"), Make("sid2", {}), Use({"fapl", "sid2"}),
        Make("decoded_sid2", {}), Use({"decoded_sid2"}), Close("sid2"),
        Close("decoded_sid2"), Make("sid3", {}), Use({"fapl", "sid3"}),
        Make("decoded_sid3", {}), Use({"decoded_sid3"}), Close("sid3"),
        Close("decoded_sid3"), Close("fapl")>>)

test_h5s_check_encoding(in_fapl, in_sid) ==
    Test(
      <<Unchecked(Use({in_fapl, in_sid}))>>
      \o Unless("expected_to_fail",
             <<Use({in_fapl, in_sid}), Make("d_sid", {}), Use({"d_sid", in_sid}),
               Close("d_sid")>>))

test_h5s_encode_regular_hyper ==
    Test(
      <<Make("fapl", {}), Use({"fapl"}), Make("sid", {})>>
      \o Twice(<<Use({"sid"})>> \o test_h5s_check_encoding("fapl", "sid"))
      \o <<Close("sid"), Close("fapl")>>)

test_h5s_encode_irregular_hyper ==
    Test(
      <<Make("fapl", {}), Use({"fapl"}), Make("sid", {})>>
      \o Twice(<<Use({"sid"})>> \o test_h5s_check_encoding("fapl", "sid"))
      \o <<Close("sid")>>)

test_h5s_encode_points ==
    Test(
      <<Make("fapl", {}), Use({"fapl"}), Make("sid", {}), Use({"sid"})>>
      \o Twice(test_h5s_check_encoding("fapl", "sid") \o <<Use({"sid"})>>)
      \o test_h5s_check_encoding("fapl", "sid")
      \o <<Close("sid")>>)

test_h5s_encode_length ==
    Test(
      <<Make("sid", {}), Use({"sid"}), Make("decoded_sid", {}),
        Use({"decoded_sid", "sid"}), Close("decoded_sid"), Close("sid")>>)

test_h5s_encode1 ==
    Test(
      <<Make("sid1", {}), Use({"sid1"}), Make("decoded_sid1", {}), Use({"decoded_sid1"}),
        Close("sid1"), Close("decoded_sid1"), Make("sid2", {}), Use({"sid2"}),
        Make("decoded_sid2", {}), Use({"decoded_sid2"}), Close("sid2"),
        Close("decoded_sid2"), Make("sid3", {}), Use({"sid3"}), Make("decoded_sid3", {}),
        Use({"decoded_sid3"}), Close("sid3"), Close("decoded_sid3")>>)

test_h5s_scalar_write ==
    Test(
      <<Create("fid1", "th5s1.h5", {}), Make("sid1", {}), Use({"sid1"}),
        New("dataset", "fid1", {"sid1"}), Use({"dataset"}), Close("dataset"),
        Close("sid1"), Close("fid1")>>)

test_h5s_scalar_read ==
    Test(
      <<OpenFile("fid1", "th5s1.h5", {}), Open("dataset", "fid1", {}),
        Make("sid1", {"dataset"}), Use({"dataset", "sid1"}), Close("dataset"),
        Close("sid1"), Close("fid1")>>)

test_h5s_compound_scalar_write ==
    Test(
      <<Create("fid1", "th5s1.h5", {}), Make("tid1", {}), Use({"tid1"}), Make("sid1", {}),
        Use({"sid1"}), New("dataset", "fid1", {"sid1", "tid1"}), Use({"dataset", "tid1"}),
        Close("dataset"), Close("tid1"), Close("sid1"), Close("fid1")>>)

test_h5s_compound_scalar_read ==
    Test(
      <<OpenFile("fid1", "th5s1.h5", {}), Open("dataset", "fid1", {}),
        Make("sid1", {"dataset"}), Use({"sid1"}), Make("type", {"dataset"}),
        Use({"dataset", "type"}), Close("type"), Close("dataset"), Close("sid1"),
        Close("fid1")>>)

test_h5s_chunk ==
    Test(
      <<Create("fileID", "th5s1.h5", {}), Make("plist_id", {}), Use({"plist_id"}),
        Make("space_id", {}), New("dsetID", "fileID", {"plist_id", "space_id"}),
        Use({"dsetID"}), Close("plist_id"), Close("space_id"), Close("dsetID"),
        Close("fileID"), OpenFile("fileID", "th5s1.h5", {}), Open("dsetID", "fileID", {}),
        Use({"dsetID"}), Close("dsetID"), Close("fileID")>>)

test_h5s_extent_equal ==
    Test(
      <<Make("null_space", {}), Make("scalar_space", {}), Make("d1_space1", {}),
        Make("d1_space2", {}), Make("d1_space3", {}), Make("d1_space4", {}),
        Make("d2_space1", {}), Make("d2_space2", {}), Make("d2_space3", {}),
        Make("d2_space4", {}), Make("d3_space1", {}), Make("d3_space2", {}),
        Make("d3_space3", {}), Make("d3_space4", {}),
        Use({"d1_space1", "d1_space2", "d1_space3", "d1_space4", "d2_space1", "d2_space2",
             "d2_space3", "d2_space4", "d3_space1", "d3_space2", "d3_space3", "d3_space4",
             "null_space", "scalar_space"}), Close("null_space"), Close("scalar_space"),
        Close("d1_space1"), Close("d1_space2"), Close("d1_space3"), Close("d1_space4"),
        Close("d2_space1"), Close("d2_space2"), Close("d2_space3"), Close("d2_space4"),
        Close("d3_space1"), Close("d3_space2"), Close("d3_space3"), Close("d3_space4")>>)

test_h5s_extent_copy ==
    Test(
      <<Make("spaces[0]", {}), Make("spaces[1]", {}), Make("spaces[2]", {}),
        Make("spaces[3]", {}), Make("spaces[4]", {}), Make("spaces[5]", {}),
        Make("spaces[6]", {}), Make("spaces[7]", {}), Make("spaces[8]", {}),
        Make("spaces[9]", {}), Make("spaces[10]", {}), Make("spaces[11]", {}),
        Make("spaces[12]", {}), Make("spaces[13]", {}), Make("tmp_space", {}),
        Use({"spaces[0]", "spaces[10]", "spaces[11]", "spaces[12]", "spaces[13]",
             "spaces[1]", "spaces[2]", "spaces[3]", "spaces[4]", "spaces[5]", "spaces[6]",
             "spaces[7]", "spaces[8]", "spaces[9]", "tmp_space"}), Close("spaces[0]"),
        Close("spaces[1]"), Close("spaces[2]"), Close("spaces[3]"), Close("spaces[4]"),
        Close("spaces[5]"), Close("spaces[6]"), Close("spaces[7]"), Close("spaces[8]"),
        Close("spaces[9]"), Close("spaces[10]"), Close("spaces[11]"), Close("spaces[12]"),
        Close("spaces[13]"), Close("tmp_space")>>)

test_h5s_bug1 ==
    Test(
      <<Make("space1", {}), Make("space2", {}), Use({"space1", "space2"}), Close("space1"),
        Close("space2")>>)

test_h5s_bug2 ==
    Test(<<Make("space", {}), Use({"space"}), Close("space")>>)

test_versionbounds ==
    Test(
      <<Make("fapl", {}), Make("space", {}), Use({"fapl"}),
        Create("file", "tverbounds_dspace.h5", {"fapl"})>>
      \o IfMade(New("dset", "file", {"space"}),
             <<Make("dset_space", {"dset"}), Close("dset_space")>>)
      \o <<Close("dset"), Close("file"), Use({"fapl"}),
           Unchecked(OpenFile("file", "tverbounds_dspace.h5", {"fapl"})),
           New("dset", "file", {"space"}), Make("dset_space", {"dset"}),
           Close("dset_space"), Close("dset"), Close("space"), Close("fapl"),
           Close("file")>>)

test_h5s ==
    Test(
      test_h5s_basic \o test_h5s_null \o test_h5s_zero_dim \o test_h5s_encode
      \o test_h5s_encode_regular_hyper \o test_h5s_encode_irregular_hyper
      \o test_h5s_encode_points \o test_h5s_encode_length \o test_h5s_encode1
      \o test_h5s_scalar_write \o test_h5s_scalar_read \o test_h5s_compound_scalar_write
      \o test_h5s_compound_scalar_read \o test_h5s_chunk \o test_h5s_extent_equal
      \o test_h5s_extent_copy \o test_h5s_bug1 \o test_h5s_bug2 \o test_versionbounds)

cleanup_h5s ==
    Test(
      <<Unchecked(Delete("th5s1.h5")), Unchecked(Delete("th5s2.h5")),
        Unchecked(Delete("th5s3.h5")), Unchecked(Delete("th5s4.h5")),
        Unchecked(Delete("tverbounds_dspace.h5"))>>)

=============================================================================
