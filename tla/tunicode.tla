------------------------------ MODULE tunicode ------------------------------
\* tunicode.c: the tests of names in UTF-8.
EXTENDS TestSteps

test_fl_string(fid) ==
    Test(
      <<Make("dtype_id", {}), Use({"dtype_id"}), Make("space_id", {}),
        New("dset_id", fid, {"dtype_id", "space_id"}), Use({"dset_id", "dtype_id"}),
        Close("dset_id"), Close("dtype_id"), Close("space_id")>>)

mkstr(t) ==
    Returning({t}, <<Make(t, {}), Use({t})>>)

test_strpad ==
    Test(
      Twice(
          mkstr("src_type") \o mkstr("dst_type")
          \o <<Use({"dst_type", "src_type"}), Close("src_type"), Close("dst_type")>>))

test_vl_string(fid) ==
    Test(
      <<Make("space_id", {}), Make("type_id", {}), Use({"type_id"}),
        New("dset_id", fid, {"space_id", "type_id"}),
        Use({"dset_id", "space_id", "type_id"}), Close("dset_id"), Close("type_id"),
        Close("space_id")>>)

test_objnames(fid) ==
    Test(
      <<New("grp_id", fid, {}), Close("grp_id"), New("grp1_id", fid, {}),
        Make("space_id", {}), New("dset_id", "grp1_id", {"space_id"}), Close("dset_id"),
        Close("space_id"), Unchecked(Open("dset_id", "grp1_id", {})), Close("dset_id"),
        Close("grp1_id"), New("grp2_id", fid, {}), Make("type_id", {}),
        Unchecked(Commit("type_id", "grp2_id", {})), Unchecked(Close("type_id")),
        Open("type_id", "grp2_id", {}), Close("type_id"), Close("grp2_id"),
        New("grp3_id", fid, {}), Use({"grp3_id", fid}), Open("type_id", "grp3_id", {}),
        Close("type_id"), Close("grp3_id")>>)

test_attrname(fid) ==
    Test(
      <<New("group_id", fid, {}), Make("space_id", {}), Make("dtype_id", {}),
        Use({"dtype_id"}), New("attr_id", "group_id", {"dtype_id", "space_id"}),
        Use({"attr_id", "dtype_id"}), Close("attr_id"), Close("dtype_id"),
        Close("space_id"), Close("group_id")>>)

test_compound(fid) ==
    Test(
      <<Make("s1_tid", {}), Use({"s1_tid"}), Make("s2_tid", {}), Use({"s2_tid"}),
        Make("space_id", {}), New("dset_id", fid, {"s1_tid", "space_id"}),
        Use({"dset_id", "s1_tid", "s2_tid"}), Close("s1_tid"), Close("s2_tid"),
        Close("space_id"), Close("dset_id")>>)

test_enum ==
    Test(<<Make("type_id", {}), Use({"type_id"}), Close("type_id")>>)

test_opaque ==
    Test(<<Make("type_id", {}), Use({"type_id"}), Close("type_id")>>)

test_unicode ==
    Test(
      <<Create("fid", "unicode.h5", {})>>
      \o test_fl_string("fid")
      \o Twice(test_strpad)
      \o test_vl_string("fid") \o test_objnames("fid") \o test_attrname("fid")
      \o test_compound("fid") \o test_enum \o test_opaque
      \o <<Close("fid")>>)

cleanup_unicode ==
    Test(<<Unchecked(Delete("unicode.h5"))>>)

=============================================================================
