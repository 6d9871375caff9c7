------------------------------ MODULE tgenprop ------------------------------
\* tgenprop.c: the tests of generic property lists and classes.
EXTENDS TestSteps

test_genprop_basic_class ==
    Test(
      <<Make("cid1", {}), Use({"cid1"}), Make("cid2", {"cid1"}), Use({"cid2"}),
        Close("cid2"), Close("cid1"), Make("cid1", {}), Use({"cid1"}),
        Make("cid2", {"cid1"}), Use({"cid2"}), Make("cid3", {"cid2"}), Use({"cid3"}),
        Close("cid3"), Close("cid2"), Close("cid1")>>)

test_genprop_basic_class_prop ==
    Test(<<Make("cid1", {}), Use({"cid1"}), Close("cid1")>>)

test_genprop_class_iter ==
    Test(<<Make("cid1", {}), Use({"cid1"}), Close("cid1")>>)

test_genprop_class_callback ==
    Test(
      <<Make("cid1", {}), Use({"cid1"}), Make("lid1", {"cid1"}), Use({"lid1"}),
        Make("lid2", {"cid1"}), Use({"lid2"}), Make("lid3", {"lid1"}), Use({"lid3"}),
        Close("lid1"), Close("lid2"), Close("lid3"), Make("cid2", {"cid1"}), Use({"cid2"}),
        Make("lid1", {"cid2"}), Use({"lid1"}), Make("lid2", {"lid1"}), Use({"lid2"}),
        Close("lid1"), Close("lid2"), Close("cid1"), Close("cid2")>>)

test_genprop_basic_list ==
    Test(
      <<Make("cid1", {}), Use({"cid1"}), Make("lid1", {"cid1"}), Make("cid2", {"lid1"}),
        Use({"cid1", "cid2", "lid1"}), Close("cid2"), Use({"lid1"}), Close("lid1"),
        Close("cid1")>>)

test_genprop_basic_list_prop ==
    Test(
      <<Make("cid1", {}), Use({"cid1"}), Make("lid1", {"cid1"}), Use({"lid1"}),
        Close("lid1"), Close("cid1")>>)

test_genprop_list_iter ==
    Test(
      <<Make("cid1", {}), Use({"cid1"}), Make("lid1", {"cid1"}), Use({"lid1"}),
        Close("lid1"), Close("cid1")>>)

test_genprop_list_callback ==
    Test(
      <<Make("cid1", {}), Use({"cid1"}), Make("lid1", {"cid1"}), Use({"lid1"}),
        Make("lid2", {"lid1"}), Use({"lid1", "lid2"}), Close("lid1"), Close("lid2"),
        Close("cid1")>>)

test_genprop_list_addprop ==
    Test(
      <<Create("fid", "tgenprop.h5", {}), Make("sid", {}), Make("pid", {}), Use({"pid"}),
        New("did", "fid", {"pid", "sid"}), Use({"pid"}), Close("pid"), Close("sid"),
        Close("did"), Close("fid")>>)

test_genprop_class_addprop ==
    Test(
      <<Create("fid", "tgenprop.h5", {}), Make("sid", {}), Make("cid", {}), Use({"cid"}),
        Make("pid", {"cid"}), Use({"cid", "pid"}), New("did", "fid", {"pid", "sid"}),
        Use({"pid"}), Close("cid"), Close("pid"), Close("sid"), Close("did"),
        Close("fid")>>)

test_genprop_list_add_remove_prop ==
    Test(<<Make("pid", {}), Use({"pid"}), Close("pid")>>)

test_genprop_equal ==
    Test(
      <<Make("cid1", {}), Use({"cid1"}), Make("lid1", {"cid1"}), Make("lid2", {"lid1"}),
        Use({"lid1", "lid2"}), Close("lid1"), Close("lid2"), Close("cid1")>>)

test_genprop_path ==
    Test(
      <<Make("cid1", {}), Use({"cid1"}), Make("cid2", {"cid1"}), Use({"cid2"}),
        Close("cid1"), Close("cid2")>>)

test_genprop_refcount ==
    Test(
      <<Make("cid1", {}), Use({"cid1"}), Make("lid1", {"cid1"}), Use({"cid1"}),
        Close("cid1"), Make("cid1", {"lid1"}), Use({"cid1", "lid1"}), Close("lid1"),
        Use({"cid1"}), Close("cid1")>>)

test_genprop_deprec_class ==
    Test(<<Make("cid1", {}), Use({"cid1"}), Close("cid1")>>)

test_genprop_deprec_list ==
    Test(
      <<Create("fid", "tgenprop.h5", {}), Make("sid", {}), Make("pid", {}), Use({"pid"}),
        New("did", "fid", {"pid", "sid"}), Use({"pid"}), Close("pid"), Close("sid"),
        Close("did"), Close("fid")>>)

test_genprop ==
    Test(
      test_genprop_basic_class \o test_genprop_basic_class_prop \o test_genprop_class_iter
      \o test_genprop_class_callback \o test_genprop_basic_list
      \o test_genprop_basic_list_prop \o test_genprop_list_iter
      \o test_genprop_list_callback \o test_genprop_list_addprop
      \o test_genprop_class_addprop \o test_genprop_list_add_remove_prop
      \o test_genprop_equal \o test_genprop_path \o test_genprop_refcount
      \o test_genprop_deprec_class \o test_genprop_deprec_list)

cleanup_genprop ==
    Test(<<Unchecked(Delete("tgenprop.h5"))>>)

=============================================================================
