-------------------------------- MODULE th5o --------------------------------
\* th5o.c: the tests of the generic object functions.
EXTENDS TestSteps

test_h5o_open ==
    Test(
      <<Create("fid", "th5o_file.h5.h5", {}), New("grp", "fid", {}), Close("grp"),
        Make("dtype", {}), Commit("dtype", "fid", {}), Close("dtype"), Make("dspace", {}),
        New("dset", "fid", {"dspace"}), Close("dset"), Close("dspace"),
        Open("grp", "fid", {}), Open("dtype", "fid", {}), Open("dset", "grp", {}),
        Use({"dset", "dtype", "grp"}), Make("dspace", {"dset"}), Close("dspace"),
        Close("grp"), Close("dtype"), Close("dset"), Close("fid")>>)

test_h5o_open_by_token ==
    Test(
      <<Create("fid", "th5o_file.h5.h5", {}), New("grp", "fid", {}), Close("grp"),
        Make("dtype", {}), Commit("dtype", "fid", {}), Close("dtype"), Make("dspace", {}),
        New("dset", "fid", {"dspace"}), Close("dset"), Close("dspace"), Use({"fid"}),
        Open("grp", "fid", {}), Use({"fid"}), Open("dtype", "fid", {}), Use({"fid"}),
        Open("dset", "grp", {}), Use({"dset", "dtype", "grp"}), Make("dspace", {"dset"}),
        Close("dspace"), Close("grp"), Close("dtype"), Close("dset"), Close("fid")>>)

test_h5o_close ==
    Test(
      <<Create("fid", "th5o_file.h5.h5", {}), New("grp", "fid", {}), Use({"grp"}),
        Close("grp"), Make("dtype", {}), Commit("dtype", "fid", {}), Close("dtype"),
        Make("dspace", {}), New("dset", "fid", {"dspace"}), Close("dset"), Close("dspace"),
        Open("grp", "fid", {}), Open("dtype", "fid", {}), Open("dset", "fid", {}),
        Close("grp"), Close("dtype"), Close("dset"), Open("grp", "fid", {}),
        Open("dtype", "fid", {}), Open("dset", "fid", {}), Close("grp"), Close("dtype"),
        Close("dset"), Close("fid")>>)

test_h5o_refcount ==
    Test(
      <<Create("fid", "th5o_file.h5.h5", {}), New("grp", "fid", {}), Make("dtype", {}),
        Commit("dtype", "fid", {}), Make("dspace", {}), New("dset", "fid", {"dspace"}),
        Close("dspace"), Use({"dset", "dtype", "fid", "grp"}), Close("grp"),
        Close("dtype"), Close("dset"), Close("fid"), OpenFile("fid", "th5o_file.h5.h5", {}),
        Open("grp", "fid", {}), Open("dtype", "fid", {}), Open("dset", "fid", {}),
        Use({"dset", "dtype", "fid", "grp"}), Close("grp"), Close("dtype"), Close("dset"),
        Close("fid"), OpenFile("fid", "th5o_file.h5.h5", {}), Open("grp", "fid", {}),
        Open("dtype", "fid", {}), Open("dset", "fid", {}), Use({"fid"}), Close("grp"),
        Close("dtype"), Close("dset"), Close("fid")>>)

test_h5o_plist ==
    Test(
      <<Make("fapl", {}), Use({"fapl"}), Create("fid", "th5o_file.h5.h5", {"fapl"}),
        Make("gcpl", {}), Make("dcpl", {}), Make("tcpl", {}),
        Use({"dcpl", "gcpl", "tcpl"}), New("grp", "fid", {"gcpl"}), Use({"fid", "grp"}),
        Make("dtype", {}), Commit("dtype", "fid", {"tcpl"}), Use({"dtype", "fid"}),
        Make("dspace", {}), New("dset", "fid", {"dcpl", "dspace"}), Use({"dset", "fid"}),
        Close("dspace"), Close("gcpl"), Close("dcpl"), Close("tcpl"),
        Make("gcpl", {"grp"}), Make("tcpl", {"dtype"}), Make("dcpl", {"dset"}),
        Use({"dcpl", "gcpl", "tcpl"}), Close("gcpl"), Close("dcpl"), Close("tcpl"),
        Close("grp"), Close("dtype"), Close("dset"), Close("fid"),
        OpenFile("fid", "th5o_file.h5.h5", {"fapl"}), Open("grp", "fid", {}),
        Open("dtype", "fid", {}), Open("dset", "fid", {}), Make("gcpl", {"grp"}),
        Make("tcpl", {"dtype"}), Make("dcpl", {"dset"}), Use({"dcpl", "gcpl", "tcpl"}),
        Close("gcpl"), Close("dcpl"), Close("tcpl"), Close("grp"), Close("dtype"),
        Close("dset"), Close("fid"), Close("fapl")>>)

\* The property list is closed in the loop over the format bounds: from then on
\* H5Pset_libver_bounds fails, as it does for bounds that do not go together.
test_h5o_link ==
    Test(
      <<Make("space_id", {}), Make("lcpl_id", {}), Use({"lcpl_id"}), Make("fapl_id", {})>>
      \o Twice(
             IfMade(Use({"fapl_id"}),
                 <<Create("file_id", "th5o_file.h5.h5", {"fapl_id"}), Close("fapl_id"),
                   Make("type_id", {}), Commit("type_id", "file_id", {}), Use({"type_id"}),
                   New("dset_id", "file_id", {"space_id", "type_id"}), Use({"dset_id"}),
                   New("group_id", "file_id", {}),
                   Use({"dset_id", "group_id", "lcpl_id", "type_id"}), Close("dset_id"),
                   Close("type_id"), Open("type_id", "group_id", {}),
                   Use({"file_id", "group_id"}), Close("group_id"),
                   Open("dset_id", "file_id", {}), Use({"dset_id"}), Close("dset_id"),
                   Close("type_id"), Close("file_id")>>))
      \o <<Close("space_id"), Close("lcpl_id")>>)

test_h5o_getinfo_same_file ==
    Test(
      <<Create("fid1", "th5o_file.h5.h5", {}), New("gid1", "fid1", {}),
        New("gid2", "fid1", {}), Use({"fid1", "gid1", "gid2"}), Close("gid1"),
        Close("gid2"), Close("fid1"), OpenFile("fid1", "th5o_file.h5.h5", {}),
        OpenFile("fid2", "th5o_file.h5.h5", {}), Open("gid1", "fid1", {}),
        Open("gid2", "fid2", {}), Use({"fid1", "gid1", "gid2"}), Close("gid1"),
        Close("gid2"), Close("fid1"), Close("fid2")>>)

test_h5o ==
    Test(
      test_h5o_open \o test_h5o_open_by_token \o test_h5o_close \o test_h5o_refcount
      \o test_h5o_plist \o test_h5o_link \o test_h5o_getinfo_same_file)

cleanup_h5o ==
    Test(<<Unchecked(Delete("th5o_file.h5.h5"))>>)

=============================================================================
