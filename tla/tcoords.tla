------------------------------- MODULE tcoords -------------------------------
\* tcoords.c: the tests of hyperslab selections and element coordinates.
EXTENDS TestSteps

test_singleEnd_selElements(file) ==
    Test(
      <<Make("sid", {}), Make("plid", {}), Use({"plid"}),
        New("did", file, {"plid", "sid"}), Use({"did", "sid"}), Close("did"),
        Open("did", file, {}), Use({"sid"}), Make("msid", {}), Use({"did", "msid", "sid"}),
        Close("did"), Close("msid"), Open("did", file, {}), Use({"sid"}), Make("msid", {}),
        Use({"did", "msid", "sid"}), Close("did"), Close("msid"), Open("did", file, {}),
        Use({"sid"}), Make("msid", {}), Use({"did", "msid", "sid"}), Close("did"),
        Close("msid"), Close("sid"), Close("plid")>>)

test_singleEnd_selHyperslab(file) ==
    Test(
      <<Make("sid", {}), Open("did", file, {}), Use({"sid"}), Make("msid", {}),
        Use({"did", "msid", "sid"}), Close("did"), Close("msid"), Open("did", file, {}),
        Use({"sid"}), Make("msid", {}), Use({"did", "msid", "sid"}), Close("did"),
        Close("msid"), Open("did", file, {}), Use({"sid"}), Make("msid", {}),
        Use({"did", "msid", "sid"}), Close("did"), Close("msid"), Close("sid")>>)

test_multiple_ends(file) ==
    Test(
      <<Make("sid", {}), Make("plid", {}), Use({"plid"}),
        New("did", file, {"plid", "sid"}), Use({"did", "sid"}), Close("did"),
        Open("did", file, {}), Use({"sid"}), Make("msid", {}), Use({"did", "msid", "sid"}),
        Close("did"), Close("msid"), Open("did", file, {}), Use({"sid"}), Make("msid", {}),
        Use({"did", "msid", "sid"}), Close("did"), Close("msid"), Open("did", file, {}),
        Use({"sid"}), Make("msid", {}), Use({"did", "msid", "sid"}), Close("did"),
        Close("msid"), Open("did", file, {}), Use({"sid"}), Make("msid", {}),
        Use({"did", "msid", "sid"}), Close("did"), Close("msid"), Open("did", file, {}),
        Use({"sid"}), Make("msid", {}), Use({"did", "msid", "sid"}), Close("did"),
        Close("msid"), Close("sid"), Close("plid")>>)

test_coords ==
    Test(
      <<Create("fid", "coord.h5", {})>>
      \o Twice(
             test_singleEnd_selElements("fid") \o test_singleEnd_selHyperslab("fid")
             \o test_multiple_ends("fid"))
      \o <<Close("fid")>>)

cleanup_coords ==
    Test(<<Unchecked(Delete("coord.h5"))>>)

=============================================================================
