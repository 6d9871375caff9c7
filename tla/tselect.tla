------------------------------- MODULE tselect -------------------------------
\* tselect.c: the tests of dataspace selections.
EXTENDS TestSteps

test_select_hyper(xfer_plist) ==
    Test(
      <<Create("fid1", "tselect.h5", {}), Make("sid1", {}), Make("sid2", {}),
        Use({"sid1", "sid2"}), Unchecked(New("dataset", "fid1", {"sid1"})),
        Use({"dataset", "sid1", "sid2", xfer_plist}), Close("sid2"), Make("sid2", {}),
        Use({"dataset", "sid1", "sid2", xfer_plist}), Close("sid2"), Close("sid1"),
        Close("dataset"), Close("fid1")>>)

test_select_point(xfer_plist) ==
    Test(
      <<Create("fid1", "tselect.h5", {}), Make("sid1", {}), Make("sid2", {}),
        Use({"sid1", "sid2"}), New("dataset", "fid1", {"sid1"}),
        Use({"dataset", "sid1", "sid2", xfer_plist}), Close("sid2"), Make("sid2", {}),
        Use({"dataset", "sid1", "sid2", xfer_plist}), Close("sid2"), Close("sid1"),
        Close("dataset"), Close("fid1")>>)

test_select_all(xfer_plist) ==
    Test(
      <<Create("fid1", "tselect.h5", {}), Make("sid1", {}), Use({"sid1"}),
        New("dataset", "fid1", {"sid1"}), Use({"dataset", "sid1", xfer_plist}),
        Close("sid1"), Close("dataset"), Close("fid1")>>)

test_select_all_hyper(xfer_plist) ==
    Test(
      <<Create("fid1", "tselect.h5", {}), Make("sid1", {}), Make("sid2", {}),
        Use({"sid1", "sid2"}), New("dataset", "fid1", {"sid1"}),
        Use({"dataset", "sid1", "sid2", xfer_plist}), Close("sid2"), Make("sid2", {}),
        Use({"dataset", "sid1", "sid2", xfer_plist}), Close("sid2"), Close("sid1"),
        Close("dataset"), Close("fid1")>>)

test_select_combo ==
    Test(
      <<Create("fid1", "tselect.h5", {}), Make("sid1", {}), Make("sid2", {}),
        Use({"sid1", "sid2"}), New("dataset", "fid1", {"sid1"}),
        Use({"dataset", "sid1", "sid2"}), Close("sid2"), Make("sid2", {}),
        Use({"dataset", "sid1", "sid2"}), Close("sid2"), Close("sid1"), Close("dataset"),
        Close("fid1")>>)

test_select_hyper_stride(xfer_plist) ==
    Test(
      <<Create("fid1", "tselect.h5", {}), Make("sid1", {}), Make("sid2", {}),
        Use({"sid1", "sid2"}), New("dataset", "fid1", {"sid1"}),
        Use({"dataset", "sid1", "sid2", xfer_plist}), Close("sid2"), Make("sid2", {}),
        Use({"dataset", "sid1", "sid2", xfer_plist}), Close("sid2"), Close("sid1"),
        Close("dataset"), Close("fid1")>>)

test_select_hyper_contig(dset_type, xfer_plist) ==
    Test(
      <<Create("fid1", "tselect.h5", {}), Make("sid1", {}), Make("sid2", {}),
        Use({"sid1", "sid2"}), New("dataset", "fid1", {"sid1", dset_type}),
        Use({"dataset", "sid1", "sid2", xfer_plist}), Close("sid2"), Make("sid2", {}),
        Use({"dataset", "sid1", "sid2", xfer_plist}), Close("sid2"), Close("sid1"),
        Close("dataset"), Close("fid1")>>)

test_select_hyper_contig2(dset_type, xfer_plist) ==
    Test(
      <<Create("fid1", "tselect.h5", {}), Make("sid1", {}), Make("sid2", {}),
        Use({"sid1", "sid2"}), New("dataset", "fid1", {"sid1", dset_type}),
        Use({"dataset", "sid1", "sid2", xfer_plist}), Close("sid2"), Make("sid2", {}),
        Use({"dataset", "sid1", "sid2", xfer_plist}), Close("sid2"), Close("sid1"),
        Close("dataset"), Close("fid1")>>)

test_select_hyper_contig3(dset_type, xfer_plist) ==
    Test(
      <<Create("fid1", "tselect.h5", {}), Make("sid1", {}), Make("sid2", {}),
        Use({"sid1", "sid2"}), New("dataset", "fid1", {"sid1", dset_type}),
        Use({"dataset", "sid1", "sid2", xfer_plist}), Close("sid2"), Make("sid2", {}),
        Use({"dataset", "sid1", "sid2", xfer_plist}), Close("sid2"), Close("sid1"),
        Close("dataset"), Close("fid1")>>)

test_select_hyper_copy ==
    Test(
      <<Create("fid1", "tselect.h5", {}), Make("sid1", {}), Make("sid2", {}),
        Use({"sid1", "sid2"}), Make("sid3", {"sid2"}), New("data1", "fid1", {"sid1"}),
        Use({"data1", "sid1", "sid2"}), Close("sid2"), New("data2", "fid1", {"sid1"}),
        Use({"data2", "sid1", "sid3"}), Close("sid3"), Make("sid2", {}), Use({"sid2"}),
        Make("sid3", {"sid2"}), Use({"data1", "data2", "sid1", "sid2", "sid3"}),
        Close("sid2"), Close("sid3"), Close("sid1"), Close("data1"), Close("data2"),
        Close("fid1")>>)

test_select_point_copy ==
    Test(
      <<Create("fid1", "tselect.h5", {}), Make("sid1", {}), Make("sid2", {}),
        Use({"sid1", "sid2"}), Make("sid3", {"sid2"}), New("data1", "fid1", {"sid1"}),
        Use({"data1", "sid1", "sid2"}), Close("sid2"), New("data2", "fid1", {"sid1"}),
        Use({"data2", "sid1", "sid3"}), Close("sid3"), Make("sid2", {}), Use({"sid2"}),
        Make("sid3", {"sid2"}), Use({"data1", "data2", "sid1", "sid2", "sid3"}),
        Close("sid2"), Close("sid3"), Close("sid1"), Close("data1"), Close("data2"),
        Close("fid1")>>)

test_select_hyper_offset ==
    Test(
      <<Create("fid1", "tselect.h5", {}), Make("sid1", {}), Make("sid2", {}),
        Use({"sid1", "sid2"}), New("dataset", "fid1", {"sid1"}),
        Use({"dataset", "sid1", "sid2"}), Close("sid2"), Make("sid2", {}),
        Use({"dataset", "sid1", "sid2"}), Close("sid2"), Close("sid1"), Close("dataset"),
        Close("fid1")>>)

test_select_hyper_offset2 ==
    Test(
      <<Create("fid1", "tselect.h5", {}), Make("sid1", {}), Make("sid2", {}),
        Use({"sid1", "sid2"}), New("dataset", "fid1", {"sid1"}),
        Use({"dataset", "sid1", "sid2"}), Close("sid2"), Close("sid1"), Close("dataset"),
        Close("fid1")>>)

test_select_point_offset ==
    Test(
      <<Create("fid1", "tselect.h5", {}), Make("sid1", {}), Make("sid2", {}),
        Use({"sid1", "sid2"}), New("dataset", "fid1", {"sid1"}),
        Use({"dataset", "sid1", "sid2"}), Close("sid2"), Make("sid2", {}),
        Use({"dataset", "sid1", "sid2"}), Close("sid2"), Close("sid1"), Close("dataset"),
        Close("fid1")>>)

test_select_hyper_union ==
    Test(
      <<Create("fid1", "tselect.h5", {}), Make("sid1", {}), Make("sid2", {}),
        Use({"sid1", "sid2"}), New("dataset", "fid1", {"sid1"}),
        Use({"dataset", "sid1", "sid2"}), Close("sid2"), Make("sid2", {}),
        Use({"dataset", "sid1", "sid2"}), Close("sid2"), Close("sid1"), Close("dataset"),
        Make("sid1", {}), Make("sid2", {}), Use({"sid1", "sid2"}),
        New("dataset", "fid1", {"sid1"}), Use({"dataset", "sid1", "sid2"}), Close("sid2"),
        Make("sid2", {}), Use({"dataset", "sid1", "sid2"}), Close("sid2"), Close("sid1"),
        Close("dataset"), Make("sid1", {}), Make("sid2", {}), Use({"sid1", "sid2"}),
        New("dataset", "fid1", {"sid1"}), Use({"dataset", "sid1", "sid2"}), Close("sid2"),
        Make("sid2", {}), Use({"dataset", "sid1", "sid2"}), Close("sid2"), Close("sid1"),
        Close("dataset"), Make("sid1", {}), Make("sid2", {}), Use({"sid1", "sid2"}),
        New("dataset", "fid1", {"sid1"}), Make("xfer", {}),
        Use({"dataset", "sid1", "sid2", "xfer"}), Close("sid2"), Make("sid2", {}),
        Use({"dataset", "sid1", "sid2", "xfer"}), Close("xfer"), Close("sid2"),
        Close("sid1"), Close("dataset"), Make("sid1", {}), Make("sid2", {}),
        Use({"sid1", "sid2"}), New("dataset", "fid1", {"sid1"}),
        Use({"dataset", "sid1", "sid2"}), Close("sid2"), Make("sid2", {}),
        Use({"dataset", "sid1", "sid2"}), Close("sid2"), Close("sid1"), Close("dataset"),
        Close("fid1")>>)

test_select_hyper_union_stagger ==
    Test(
      <<Create("file_id", "tselect.h5", {}), Make("dataspace", {}),
        New("dset_id", "file_id", {"dataspace"}), Use({"dataspace", "dset_id"}),
        Close("dataspace"), Close("dset_id"), Close("file_id"),
        OpenFile("file_id", "tselect.h5", {}), Open("dset_id", "file_id", {}),
        Make("dataspace", {"dset_id"}), Use({"dataspace"}),
        Make("tmp_space", {"dataspace"}), Make("tmp2_space", {"dataspace"}),
        Use({"tmp2_space", "tmp_space"}), Make("memspace", {}),
        Use({"dset_id", "memspace", "tmp_space"}), Close("tmp2_space"), Close("tmp_space"),
        Close("dataspace"), Close("memspace"), Close("dset_id"), Close("file_id")>>)

test_select_hyper_union_3d ==
    Test(
      <<Create("fid1", "tselect.h5", {}), Make("sid1", {}), Make("sid2", {}),
        Use({"sid1", "sid2"}), Make("tmp_space", {"sid2"}),
        Make("tmp2_space", {"sid2", "tmp_space"}), Use({"tmp2_space"}),
        New("dataset", "fid1", {"sid1"}), Use({"dataset", "sid1", "tmp2_space"}),
        Close("tmp_space"), Close("tmp2_space"), Close("sid2"), Make("sid2", {}),
        Use({"dataset", "sid1", "sid2"}), Close("sid2"), Close("sid1"), Close("dataset"),
        Close("fid1")>>)

test_select_hyper_valid_combination ==
    Test(
      <<Make("single_pt_sid", {}), Use({"single_pt_sid"}), Make("single_hyper_sid", {}),
        Use({"single_hyper_sid"}), Make("regular_hyper_sid", {}),
        Use({"regular_hyper_sid", "single_hyper_sid", "single_pt_sid"}),
        Close("single_pt_sid"), Close("single_hyper_sid"), Close("regular_hyper_sid")>>)

test_select_hyper_and_2d ==
    Test(
      <<Create("fid1", "tselect.h5", {}), Make("sid1", {}), Make("sid2", {}),
        Use({"sid1", "sid2"}), New("dataset", "fid1", {"sid1"}),
        Use({"dataset", "sid1", "sid2"}), Close("sid2"), Close("sid1"), Close("dataset"),
        Close("fid1")>>)

test_select_hyper_xor_2d ==
    Test(
      <<Create("fid1", "tselect.h5", {}), Make("sid1", {}), Make("sid2", {}),
        Use({"sid1", "sid2"}), New("dataset", "fid1", {"sid1"}),
        Use({"dataset", "sid1", "sid2"}), Close("sid2"), Close("sid1"), Close("dataset"),
        Close("fid1")>>)

test_select_hyper_notb_2d ==
    Test(
      <<Create("fid1", "tselect.h5", {}), Make("sid1", {}), Make("sid2", {}),
        Use({"sid1", "sid2"}), New("dataset", "fid1", {"sid1"}),
        Use({"dataset", "sid1", "sid2"}), Close("sid2"), Close("sid1"), Close("dataset"),
        Close("fid1")>>)

test_select_hyper_nota_2d ==
    Test(
      <<Create("fid1", "tselect.h5", {}), Make("sid1", {}), Make("sid2", {}),
        Use({"sid1", "sid2"}), New("dataset", "fid1", {"sid1"}),
        Use({"dataset", "sid1", "sid2"}), Close("sid2"), Close("sid1"), Close("dataset"),
        Close("fid1")>>)

test_select_hyper_union_random_5d(read_plist) ==
    Test(
      <<Create("fid1", "tselect.h5", {}), Make("sid1", {}),
        New("dataset", "fid1", {"sid1"}), Use({"dataset"}), Make("sid2", {}),
        Use({"dataset", "sid1", "sid2", read_plist}), Close("sid2"), Close("sid1"),
        Close("dataset"), Close("fid1")>>)

test_select_hyper_chunk(fapl_plist, xfer_plist) ==
    Test(
      <<Create("file", "tselect.h5", {fapl_plist}), Make("dataspace", {}),
        Make("plist", {}), Use({"plist"}), New("dataset", "file", {"dataspace", "plist"}),
        Use({"dataspace"}), Make("memspace", {}),
        Use({"dataset", "dataspace", "memspace", xfer_plist}), Close("plist"),
        Close("dataspace"), Close("memspace"), Close("dataset"), Close("file"),
        OpenFile("file", "tselect.h5", {fapl_plist}), Open("dataset", "file", {}),
        Make("dataspace", {"dataset"}), Use({"dataspace"}), Make("memspace", {}),
        Use({"dataset", "dataspace", "memspace", xfer_plist}), Close("dataset"),
        Close("dataspace"), Close("memspace"), Close("file")>>)

test_select_valid ==
    Test(
      <<Unchecked(Use({"sub_space"})), Make("main_space", {}),
        Make("sub_space", {"main_space"}), Close("sub_space"),
        Make("sub_space", {"main_space"}), Use({"sub_space"}), Close("sub_space"),
        Make("sub_space", {"main_space"}), Use({"sub_space"}), Close("sub_space"),
        Make("sub_space", {"main_space"}), Use({"sub_space"}), Close("sub_space"),
        Close("main_space")>>)

test_select_combine ==
    Test(
      <<Make("base_id", {}), Make("all_id", {"base_id"}), Use({"all_id"}),
        Make("none_id", {"base_id"}), Use({"none_id"}), Make("space1", {"all_id"}),
        Use({"space1"}), Close("space1"), Make("space1", {"all_id"}), Use({"space1"}),
        Close("space1"), Make("space1", {"all_id"}), Use({"space1"}), Close("space1"),
        Make("space1", {"all_id"}), Use({"space1"}), Close("space1"),
        Make("space1", {"all_id"}), Use({"space1"}), Close("space1"),
        Make("space1", {"none_id"}), Use({"space1"}), Close("space1"),
        Make("space1", {"none_id"}), Use({"space1"}), Close("space1"),
        Make("space1", {"none_id"}), Use({"space1"}), Close("space1"),
        Make("space1", {"none_id"}), Use({"space1"}), Close("space1"),
        Make("space1", {"none_id"}), Use({"space1"}), Close("space1"), Close("base_id"),
        Close("all_id"), Close("none_id")>>)

test_select_fill_all ==
    Test(<<Make("sid1", {}), Use({"sid1"}), Close("sid1")>>)

test_select_fill_point ==
    Test(<<Make("sid1", {}), Use({"sid1"}), Close("sid1")>>)

test_select_fill_hyper_simple ==
    Test(<<Make("sid1", {}), Use({"sid1"}), Close("sid1")>>)

test_select_fill_hyper_regular ==
    Test(<<Make("sid1", {}), Use({"sid1"}), Close("sid1")>>)

test_select_fill_hyper_irregular ==
    Test(<<Make("sid1", {}), Use({"sid1"}), Close("sid1")>>)

test_select_none ==
    Test(
      <<Create("fid1", "tselect.h5", {}), Make("sid1", {}), Make("sid2", {}),
        New("dataset", "fid1", {"sid1"}), Use({"dataset", "sid1", "sid2"}), Close("sid2"),
        Close("sid1"), Close("dataset"), Close("fid1")>>)

test_scalar_select ==
    Test(
      <<Create("fid1", "tselect.h5", {}), Make("sid1", {}), Make("sid2", {}),
        New("dataset", "fid1", {"sid1"}), Use({"dataset", "sid1", "sid2"}), Close("sid2"),
        Close("sid1"), Close("dataset"), Close("fid1")>>)

test_scalar_select2 ==
    Test(<<Make("sid", {}), Use({"sid"}), Close("sid")>>)

test_scalar_select3 ==
    Test(
      <<Create("fid1", "tselect.h5", {}), Make("sid1", {}), Make("sid2", {}),
        New("dataset", "fid1", {"sid1"}), Use({"dataset", "sid1", "sid2"}), Close("sid2"),
        Close("sid1"), Close("dataset"), Close("fid1")>>)

test_shape_same ==
    Test(
      <<Make("all_sid", {}), Use({"all_sid"}), Make("none_sid", {}), Use({"none_sid"}),
        Make("single_pt_sid", {}), Use({"single_pt_sid"}), Make("mult_pt_sid", {}),
        Use({"mult_pt_sid"}), Make("single_hyper_sid", {}), Use({"single_hyper_sid"}),
        Make("single_hyper_all_sid", {}), Use({"single_hyper_all_sid"}),
        Make("single_hyper_pt_sid", {}), Use({"single_hyper_pt_sid"}),
        Make("regular_hyper_sid", {}), Use({"regular_hyper_sid"}),
        Make("irreg_hyper_sid", {}), Use({"irreg_hyper_sid"}), Make("none_hyper_sid", {}),
        Use({"none_hyper_sid"}), Make("scalar_all_sid", {}), Make("scalar_none_sid", {}),
        Use({"all_sid", "scalar_none_sid"}), Make("tmp_sid", {"all_sid"}),
        Use({"all_sid", "tmp_sid"}), Close("tmp_sid"),
        Use({"all_sid", "irreg_hyper_sid", "mult_pt_sid", "none_hyper_sid", "none_sid",
             "regular_hyper_sid", "scalar_all_sid", "scalar_none_sid",
             "single_hyper_all_sid", "single_hyper_pt_sid", "single_hyper_sid",
             "single_pt_sid"}), Make("tmp_sid", {"none_sid"}),
        Use({"none_sid", "tmp_sid"}), Close("tmp_sid"),
        Use({"all_sid", "irreg_hyper_sid", "mult_pt_sid", "none_hyper_sid", "none_sid",
             "regular_hyper_sid", "scalar_all_sid", "scalar_none_sid",
             "single_hyper_all_sid", "single_hyper_pt_sid", "single_hyper_sid",
             "single_pt_sid"}), Make("tmp_sid", {"single_pt_sid"}),
        Use({"single_pt_sid", "tmp_sid"}), Close("tmp_sid"),
        Use({"all_sid", "irreg_hyper_sid", "mult_pt_sid", "none_hyper_sid", "none_sid",
             "regular_hyper_sid", "scalar_all_sid", "scalar_none_sid",
             "single_hyper_all_sid", "single_hyper_pt_sid", "single_hyper_sid",
             "single_pt_sid"}), Make("tmp_sid", {"mult_pt_sid"}),
        Use({"mult_pt_sid", "tmp_sid"}), Close("tmp_sid"),
        Use({"all_sid", "irreg_hyper_sid", "mult_pt_sid", "none_hyper_sid", "none_sid",
             "regular_hyper_sid", "scalar_all_sid", "scalar_none_sid",
             "single_hyper_all_sid", "single_hyper_pt_sid", "single_hyper_sid",
             "single_pt_sid"}), Make("tmp_sid", {"single_hyper_sid"}),
        Use({"single_hyper_sid", "tmp_sid"}), Close("tmp_sid"),
        Use({"all_sid", "irreg_hyper_sid", "mult_pt_sid", "none_hyper_sid", "none_sid",
             "regular_hyper_sid", "single_hyper_all_sid", "single_hyper_pt_sid",
             "single_hyper_sid", "single_pt_sid"}), Make("tmp_sid", {}),
        Use({"single_hyper_sid", "tmp_sid"}), Close("tmp_sid"),
        Use({"scalar_all_sid", "scalar_none_sid", "single_hyper_all_sid",
             "single_hyper_sid"}), Make("tmp_sid", {"single_hyper_all_sid"}),
        Use({"single_hyper_all_sid", "tmp_sid"}), Close("tmp_sid"),
        Use({"all_sid", "irreg_hyper_sid", "mult_pt_sid", "none_hyper_sid", "none_sid",
             "regular_hyper_sid", "single_hyper_all_sid", "single_hyper_pt_sid",
             "single_hyper_sid", "single_pt_sid"}), Make("tmp_sid", {}),
        Use({"single_hyper_all_sid", "tmp_sid"}), Close("tmp_sid"),
        Use({"scalar_all_sid", "scalar_none_sid", "single_hyper_all_sid",
             "single_hyper_pt_sid"}), Make("tmp_sid", {"single_hyper_pt_sid"}),
        Use({"single_hyper_pt_sid", "tmp_sid"}), Close("tmp_sid"),
        Use({"all_sid", "irreg_hyper_sid", "mult_pt_sid", "none_hyper_sid", "none_sid",
             "regular_hyper_sid", "scalar_all_sid", "scalar_none_sid",
             "single_hyper_all_sid", "single_hyper_pt_sid", "single_hyper_sid",
             "single_pt_sid"}), Make("tmp_sid", {"regular_hyper_sid"}),
        Use({"regular_hyper_sid", "tmp_sid"}), Close("tmp_sid"),
        Use({"all_sid", "irreg_hyper_sid", "mult_pt_sid", "none_hyper_sid", "none_sid",
             "regular_hyper_sid", "single_hyper_all_sid", "single_hyper_pt_sid",
             "single_hyper_sid", "single_pt_sid"}), Make("tmp_sid", {}),
        Use({"regular_hyper_sid", "tmp_sid"}), Close("tmp_sid"), Make("tmp_sid", {}),
        Use({"regular_hyper_sid", "tmp_sid"}), Close("tmp_sid"), Make("tmp_sid", {}),
        Use({"regular_hyper_sid", "tmp_sid"}), Close("tmp_sid"),
        Use({"irreg_hyper_sid", "regular_hyper_sid", "scalar_all_sid", "scalar_none_sid"}),
        Make("tmp_sid", {"irreg_hyper_sid"}), Use({"irreg_hyper_sid", "tmp_sid"}),
        Close("tmp_sid"),
        Use({"all_sid", "irreg_hyper_sid", "mult_pt_sid", "none_hyper_sid", "none_sid",
             "regular_hyper_sid", "single_hyper_all_sid", "single_hyper_pt_sid",
             "single_hyper_sid", "single_pt_sid"}), Make("tmp_sid", {}),
        Use({"irreg_hyper_sid", "tmp_sid"}), Close("tmp_sid"),
        Use({"irreg_hyper_sid", "scalar_all_sid", "scalar_none_sid"}),
        Make("tmp_sid", {"scalar_all_sid"}), Use({"scalar_all_sid", "tmp_sid"}),
        Close("tmp_sid"),
        Use({"all_sid", "irreg_hyper_sid", "mult_pt_sid", "none_hyper_sid", "none_sid",
             "regular_hyper_sid", "scalar_all_sid", "scalar_none_sid",
             "single_hyper_all_sid", "single_hyper_pt_sid", "single_hyper_sid",
             "single_pt_sid"}), Make("tmp_sid", {"scalar_none_sid"}),
        Use({"scalar_none_sid", "tmp_sid"}), Close("tmp_sid"),
        Use({"all_sid", "irreg_hyper_sid", "mult_pt_sid", "none_hyper_sid", "none_sid",
             "regular_hyper_sid", "scalar_all_sid", "scalar_none_sid",
             "single_hyper_all_sid", "single_hyper_pt_sid", "single_hyper_sid",
             "single_pt_sid"}), Close("all_sid"), Close("none_sid"),
        Close("single_pt_sid"), Close("mult_pt_sid"), Close("single_hyper_sid"),
        Close("single_hyper_all_sid"), Close("single_hyper_pt_sid"),
        Close("regular_hyper_sid"), Close("irreg_hyper_sid"), Close("none_hyper_sid"),
        Close("scalar_all_sid"), Close("scalar_none_sid")>>)

test_shape_same_dr__smoke_check_1 ==
    Test(
      <<Make("small_square_sid", {}), Make("small_cube_xy_slice_0_sid", {}),
        Make("small_cube_xy_slice_1_sid", {}), Make("small_cube_xy_slice_2_sid", {}),
        Use({"small_cube_xy_slice_0_sid", "small_cube_xy_slice_1_sid",
             "small_cube_xy_slice_2_sid"}), Make("small_cube_xz_slice_0_sid", {}),
        Make("small_cube_xz_slice_1_sid", {}), Make("small_cube_xz_slice_2_sid", {}),
        Use({"small_cube_xz_slice_0_sid", "small_cube_xz_slice_1_sid",
             "small_cube_xz_slice_2_sid"}), Make("small_cube_yz_slice_0_sid", {}),
        Make("small_cube_yz_slice_1_sid", {}), Make("small_cube_yz_slice_2_sid", {}),
        Make("small_cube_yz_slice_3_sid", {}), Make("small_cube_yz_slice_4_sid", {}),
        Use({"small_cube_xy_slice_0_sid", "small_cube_xy_slice_1_sid",
             "small_cube_xy_slice_2_sid", "small_cube_xz_slice_0_sid",
             "small_cube_xz_slice_1_sid", "small_cube_xz_slice_2_sid",
             "small_cube_yz_slice_0_sid", "small_cube_yz_slice_1_sid",
             "small_cube_yz_slice_2_sid", "small_cube_yz_slice_3_sid",
             "small_cube_yz_slice_4_sid", "small_square_sid"}), Close("small_square_sid"),
        Close("small_cube_xy_slice_0_sid"), Close("small_cube_xy_slice_1_sid"),
        Close("small_cube_xy_slice_2_sid"), Close("small_cube_xz_slice_0_sid"),
        Close("small_cube_xz_slice_1_sid"), Close("small_cube_xz_slice_2_sid"),
        Close("small_cube_yz_slice_0_sid"), Close("small_cube_yz_slice_1_sid"),
        Close("small_cube_yz_slice_2_sid"), Close("small_cube_yz_slice_3_sid"),
        Close("small_cube_yz_slice_4_sid")>>)

test_shape_same_dr__smoke_check_2 ==
    Test(
      <<Make("small_square_sid", {}), Use({"small_square_sid"}),
        Make("small_cube_xy_slice_0_sid", {}), Make("small_cube_xy_slice_1_sid", {}),
        Make("small_cube_xy_slice_2_sid", {}),
        Use({"small_cube_xy_slice_0_sid", "small_cube_xy_slice_1_sid",
             "small_cube_xy_slice_2_sid"}), Make("small_cube_xz_slice_0_sid", {}),
        Make("small_cube_xz_slice_1_sid", {}), Make("small_cube_xz_slice_2_sid", {}),
        Use({"small_cube_xz_slice_0_sid", "small_cube_xz_slice_1_sid",
             "small_cube_xz_slice_2_sid"}), Make("small_cube_yz_slice_0_sid", {}),
        Make("small_cube_yz_slice_1_sid", {}), Make("small_cube_yz_slice_2_sid", {}),
        Make("small_cube_yz_slice_3_sid", {}),
        Use({"small_cube_xy_slice_0_sid", "small_cube_xy_slice_1_sid",
             "small_cube_xy_slice_2_sid", "small_cube_xz_slice_0_sid",
             "small_cube_xz_slice_1_sid", "small_cube_xz_slice_2_sid",
             "small_cube_yz_slice_0_sid", "small_cube_yz_slice_1_sid",
             "small_cube_yz_slice_2_sid", "small_cube_yz_slice_3_sid", "small_square_sid"}),
        Close("small_square_sid"), Close("small_cube_xy_slice_0_sid"),
        Close("small_cube_xy_slice_1_sid"), Close("small_cube_xy_slice_2_sid"),
        Close("small_cube_xz_slice_0_sid"), Close("small_cube_xz_slice_1_sid"),
        Close("small_cube_xz_slice_2_sid"), Close("small_cube_yz_slice_0_sid"),
        Close("small_cube_yz_slice_1_sid"), Close("small_cube_yz_slice_2_sid"),
        Close("small_cube_yz_slice_3_sid")>>)

test_shape_same_dr__smoke_check_3 ==
    Test(
      <<Make("small_square_sid", {}), Use({"small_square_sid"}),
        Make("small_cube_xy_slice_0_sid", {}), Make("small_cube_xy_slice_1_sid", {}),
        Make("small_cube_xy_slice_2_sid", {}),
        Use({"small_cube_xy_slice_0_sid", "small_cube_xy_slice_1_sid",
             "small_cube_xy_slice_2_sid"}), Make("small_cube_xz_slice_0_sid", {}),
        Make("small_cube_xz_slice_1_sid", {}), Make("small_cube_xz_slice_2_sid", {}),
        Use({"small_cube_xz_slice_0_sid", "small_cube_xz_slice_1_sid",
             "small_cube_xz_slice_2_sid"}), Make("small_cube_yz_slice_0_sid", {}),
        Make("small_cube_yz_slice_1_sid", {}), Make("small_cube_yz_slice_2_sid", {}),
        Use({"small_cube_xy_slice_0_sid", "small_cube_xy_slice_1_sid",
             "small_cube_xy_slice_2_sid", "small_cube_xz_slice_0_sid",
             "small_cube_xz_slice_1_sid", "small_cube_xz_slice_2_sid",
             "small_cube_yz_slice_0_sid", "small_cube_yz_slice_1_sid",
             "small_cube_yz_slice_2_sid", "small_square_sid"}), Close("small_square_sid"),
        Close("small_cube_xy_slice_0_sid"), Close("small_cube_xy_slice_1_sid"),
        Close("small_cube_xy_slice_2_sid"), Close("small_cube_xz_slice_0_sid"),
        Close("small_cube_xz_slice_1_sid"), Close("small_cube_xz_slice_2_sid"),
        Close("small_cube_yz_slice_0_sid"), Close("small_cube_yz_slice_1_sid"),
        Close("small_cube_yz_slice_2_sid")>>)

test_shape_same_dr__smoke_check_4 ==
    Test(
      <<Make("square_sid", {}), Make("three_d_space_0_sid", {}),
        Make("three_d_space_1_sid", {}), Make("three_d_space_2_sid", {}),
        Make("three_d_space_3_sid", {}), Make("four_d_space_0_sid", {}),
        Make("four_d_space_1_sid", {}), Make("four_d_space_2_sid", {}),
        Make("four_d_space_3_sid", {}), Make("four_d_space_4_sid", {}),
        Make("four_d_space_5_sid", {}), Make("four_d_space_6_sid", {}),
        Use({"four_d_space_0_sid", "four_d_space_1_sid", "four_d_space_2_sid",
             "four_d_space_3_sid", "four_d_space_4_sid", "four_d_space_5_sid",
             "four_d_space_6_sid", "square_sid", "three_d_space_0_sid",
             "three_d_space_1_sid", "three_d_space_2_sid", "three_d_space_3_sid"}),
        Close("square_sid"), Close("three_d_space_0_sid"), Close("three_d_space_1_sid"),
        Close("three_d_space_2_sid"), Close("three_d_space_3_sid"),
        Close("four_d_space_0_sid"), Close("four_d_space_1_sid"),
        Close("four_d_space_2_sid"), Close("four_d_space_3_sid"),
        Close("four_d_space_4_sid"), Close("four_d_space_5_sid"),
        Close("four_d_space_6_sid")>>)

test_shape_same_dr__full_space_vs_slice ==
    Test(
      <<Make("n_cube_0_sid", {}), Make("n_cube_1_sid", {}),
        Use({"n_cube_0_sid", "n_cube_1_sid"}), Close("n_cube_0_sid"),
        Close("n_cube_1_sid")>>)

test_shape_same_dr__run_full_space_vs_slice_tests ==
    Test(Twice(test_shape_same_dr__full_space_vs_slice))

test_shape_same_dr__checkerboard ==
    Test(
      <<Make("n_cube_0_sid", {}), Use({"n_cube_0_sid"}), Make("n_cube_1_sid", {}),
        Use({"n_cube_0_sid", "n_cube_1_sid"}), Close("n_cube_0_sid"),
        Close("n_cube_1_sid")>>)

test_shape_same_dr__run_checkerboard_tests ==
    Test(Twice(test_shape_same_dr__checkerboard))

test_shape_same_dr__irregular ==
    Test(
      <<Make("n_cube_0_sid", {}), Use({"n_cube_0_sid"}), Make("n_cube_1_sid", {}),
        Use({"n_cube_0_sid", "n_cube_1_sid"}), Close("n_cube_0_sid"),
        Close("n_cube_1_sid")>>)

test_shape_same_dr__run_irregular_tests ==
    Test(Twice(test_shape_same_dr__irregular))

test_shape_same_dr ==
    Test(
      test_shape_same_dr__smoke_check_1 \o test_shape_same_dr__smoke_check_2
      \o test_shape_same_dr__smoke_check_3 \o test_shape_same_dr__smoke_check_4
      \o test_shape_same_dr__run_full_space_vs_slice_tests
      \o test_shape_same_dr__run_checkerboard_tests
      \o test_shape_same_dr__run_irregular_tests)

test_space_rebuild ==
    Test(
      <<Unchecked(Make("sid_reg1", {})), Unchecked(Make("sid_reg_ori1", {})),
        Use({"sid_reg1", "sid_reg_ori1"}), Unchecked(Make("sid_irreg1", {})),
        Use({"sid_irreg1"}), Unchecked(Make("sid_reg2", {})),
        Unchecked(Make("sid_reg_ori2", {})), Use({"sid_reg2", "sid_reg_ori2"}),
        Unchecked(Make("sid_irreg2", {})), Use({"sid_irreg2"}),
        Unchecked(Make("sid_reg3", {})), Unchecked(Make("sid_reg_ori3", {})),
        Use({"sid_reg3", "sid_reg_ori3"}), Unchecked(Make("sid_irreg3", {})),
        Use({"sid_irreg3"}), Unchecked(Make("sid_reg4", {})),
        Unchecked(Make("sid_reg_ori4", {})), Use({"sid_reg4", "sid_reg_ori4"}),
        Unchecked(Make("sid_irreg4", {})), Use({"sid_irreg4"}),
        Unchecked(Make("sid_reg5", {})), Unchecked(Make("sid_reg_ori5", {})),
        Use({"sid_reg5", "sid_reg_ori5"}), Unchecked(Make("sid_irreg5", {})),
        Use({"sid_irreg5"}), Unchecked(Make("sid_spec", {})), Use({"sid_spec"}),
        Unchecked(Close("sid_reg1")), Unchecked(Close("sid_irreg1")),
        Unchecked(Close("sid_reg2")), Unchecked(Close("sid_irreg2")),
        Unchecked(Close("sid_reg3")), Unchecked(Close("sid_irreg3")),
        Unchecked(Close("sid_reg4")), Unchecked(Close("sid_irreg4")),
        Unchecked(Close("sid_reg5")), Unchecked(Close("sid_irreg5")),
        Unchecked(Close("sid_spec"))>>)

test_space_update_diminfo ==
    Test(
      <<Unchecked(Make("space_id", {})), Use({"space_id"}), Close("space_id"),
        Unchecked(Make("space_id", {})), Use({"space_id"}), Close("space_id")>>)

test_select_point_chunk ==
    Test(
      <<Create("file", "tselect.h5", {}), Make("dataspace", {}), Make("dcpl", {}),
        Use({"dcpl"}), New("dataset", "file", {"dataspace", "dcpl"}),
        Make("pnt1_space", {"dataspace"}), Use({"pnt1_space"}),
        Make("hyp1_space", {"dataspace"}), Use({"dataset", "hyp1_space", "pnt1_space"}),
        Make("pnt2_space", {"dataspace"}), Use({"pnt2_space"}),
        Make("hyp2_space", {"dataspace"}), Use({"dataset", "hyp2_space", "pnt2_space"}),
        Close("dcpl"), Close("dataspace"), Close("dataset"), Close("file"),
        OpenFile("file", "tselect.h5", {}), Open("dataset", "file", {}),
        Use({"dataset", "hyp1_space", "hyp2_space", "pnt1_space", "pnt2_space"}),
        Close("pnt1_space"), Close("pnt2_space"), Close("hyp1_space"), Close("hyp2_space"),
        Close("dataset"), Close("file")>>)

test_select_scalar_chunk ==
    Test(
      <<Create("file_id", "tselect.h5", {}), Make("dcpl", {}), Use({"dcpl"}),
        Make("sid", {}), New("dsid", "file_id", {"dcpl", "sid"}), Use({"sid"}),
        Make("m_sid", {}), Use({"dsid", "m_sid", "sid"}), Close("m_sid"), Close("sid"),
        Close("dsid"), Close("dcpl"), Close("file_id")>>)

test_select_bounds ==
    Test(<<Make("sid", {}), Use({"sid"}), Close("sid")>>)

test_hyper_regular ==
    Test(<<Make("sid", {}), Use({"sid"}), Close("sid")>>)

test_hyper_unlim_check(sid) ==
    Test(<<Make("lim_sid", {sid}), Use({"lim_sid"}), Close("lim_sid")>>)

test_hyper_unlim ==
    Test(
      <<Make("sid", {}), Use({"sid"})>>
      \o Twice(test_hyper_unlim_check("sid"))
      \o <<Use({"sid"})>>
      \o test_hyper_unlim_check("sid")
      \o <<Use({"sid"})>>
      \o Twice(test_hyper_unlim_check("sid"))
      \o Twice(<<Use({"sid"})>> \o test_hyper_unlim_check("sid"))
      \o <<Use({"sid"}), Close("sid")>>)

test_internal_consistency ==
    Test(
      <<Make("all_sid", {}), Use({"all_sid"}), Make("none_sid", {}), Use({"none_sid"}),
        Make("single_pt_sid", {}), Use({"single_pt_sid"}), Make("mult_pt_sid", {}),
        Use({"mult_pt_sid"}), Make("single_hyper_sid", {}), Use({"single_hyper_sid"}),
        Make("single_hyper_all_sid", {}), Use({"single_hyper_all_sid"}),
        Make("single_hyper_pt_sid", {}), Use({"single_hyper_pt_sid"}),
        Make("regular_hyper_sid", {}), Use({"regular_hyper_sid"}),
        Make("irreg_hyper_sid", {}), Use({"irreg_hyper_sid"}), Make("none_hyper_sid", {}),
        Use({"none_hyper_sid"}), Make("scalar_all_sid", {}), Make("scalar_none_sid", {}),
        Use({"scalar_none_sid"}), Make("tmp_sid", {"all_sid"}), Close("tmp_sid"),
        Close("all_sid"), Close("none_sid"), Close("single_pt_sid"), Close("mult_pt_sid"),
        Close("single_hyper_sid"), Close("single_hyper_all_sid"),
        Close("single_hyper_pt_sid"), Close("regular_hyper_sid"), Close("irreg_hyper_sid"),
        Close("none_hyper_sid"), Close("scalar_all_sid"), Close("scalar_none_sid")>>)

test_irreg_io ==
    Test(
      <<Create("fid", "tselect.h5", {}), Make("sid", {}), Make("dcpl_id", {}),
        Use({"dcpl_id"}), New("did", "fid", {"dcpl_id", "sid"}), Use({"did"}),
        Close("dcpl_id"), Make("mem_sid", {}), Use({"did", "mem_sid", "sid"}),
        Close("mem_sid"), Close("sid"), Close("did"), Close("fid")>>)

test_sel_iter ==
    Test(
      <<Make("sid", {})>>
      \o Twice(
             <<Make("iter_id", {"sid"}), Close("iter_id"), Make("iter_id", {"sid"}),
               Unchecked(Use({"H5P_DEFAULT", "iter_id", "sid"})), Close("iter_id")>>
             \o Twice(
                    <<Use({"sid"}), Make("iter_id", {"sid"}), Use({"iter_id"}),
                      Close("iter_id")>>)
             \o <<Make("iter_id", {"sid"}), Use({"iter_id", "sid"}), Close("iter_id"),
                  Use({"sid"}), Make("iter_id", {"sid"}), Use({"iter_id", "sid"}),
                  Close("iter_id"), Use({"sid"}), Make("iter_id", {"sid"}),
                  Use({"iter_id", "sid"}), Close("iter_id")>>)
      \o <<Close("sid")>>)

test_select_intersect_block ==
    Test(<<Make("sid", {}), Use({"sid"}), Close("sid")>>)

test_hyper_io_1d ==
    Test(
      <<Create("fid", "tselect.h5", {}), Make("sid", {}), Make("mid", {}),
        Make("dcpl", {}), Use({"dcpl"}), New("did", "fid", {"dcpl", "sid"})>>
      \o Twice(
             <<Use({"did", "mid", "sid"})>>
             \o When("i<(NUMCHUNKS-1)", <<Use({"did"}), Make("sid", {"did"})>>))
      \o <<Close("sid"), Close("mid"), Close("did"), Close("dcpl"), Close("fid"),
           OpenFile("fid", "tselect.h5", {}), Open("did", "fid", {}), Make("sid", {"did"}),
           Use({"sid"}), Make("mid", {}), Use({"did", "mid", "sid"}), Close("mid"),
           Close("sid"), Close("did"), Close("fid")>>)

test_h5s_set_extent_none ==
    Test(
      <<Make("sid", {}), Use({"sid"}), Make("dst_sid", {}), Use({"dst_sid", "sid"}),
        Make("null_sid", {}), Use({"null_sid", "sid"}), Close("sid"), Close("dst_sid"),
        Close("null_sid")>>)

test_select ==
    Test(
      <<Make("plist_id", {}), Use({"plist_id"})>>
      \o test_select_hyper("H5P_DEFAULT") \o test_select_hyper("plist_id")
      \o test_select_point("H5P_DEFAULT") \o test_select_point("plist_id")
      \o test_select_all("H5P_DEFAULT") \o test_select_all("plist_id")
      \o test_select_all_hyper("H5P_DEFAULT") \o test_select_all_hyper("plist_id")
      \o test_select_combo \o test_select_hyper_stride("H5P_DEFAULT")
      \o test_select_hyper_stride("plist_id")
      \o Twice(
             test_select_hyper_contig("H5P_DEFAULT", "H5P_DEFAULT")
             \o test_select_hyper_contig("H5P_DEFAULT", "plist_id"))
      \o Twice(
             test_select_hyper_contig2("H5P_DEFAULT", "H5P_DEFAULT")
             \o test_select_hyper_contig2("H5P_DEFAULT", "plist_id"))
      \o Twice(
             test_select_hyper_contig3("H5P_DEFAULT", "H5P_DEFAULT")
             \o test_select_hyper_contig3("H5P_DEFAULT", "plist_id"))
      \o test_select_hyper_copy \o test_select_point_copy \o test_select_hyper_offset
      \o test_select_hyper_offset2 \o test_select_point_offset \o test_select_hyper_union
      \o test_select_hyper_union_stagger \o test_select_hyper_union_3d
      \o test_select_hyper_valid_combination
      \o Unless("direct driver",
             test_select_hyper_and_2d \o test_select_hyper_xor_2d
             \o test_select_hyper_notb_2d \o test_select_hyper_nota_2d)
      \o test_select_hyper_union_random_5d("H5P_DEFAULT")
      \o test_select_hyper_union_random_5d("plist_id")
      \o <<Make("fapl", {}), Use({"fapl"})>>
      \o test_select_hyper_chunk("fapl", "H5P_DEFAULT")
      \o test_select_hyper_chunk("fapl", "plist_id")
      \o <<Close("fapl"), Close("plist_id")>>
      \o test_select_valid \o test_select_combine \o test_select_fill_all
      \o Twice(test_select_fill_point)
      \o Twice(test_select_fill_hyper_simple)
      \o Twice(test_select_fill_hyper_regular)
      \o Twice(test_select_fill_hyper_irregular)
      \o test_select_none \o test_scalar_select \o test_scalar_select2
      \o test_scalar_select3 \o test_shape_same \o test_shape_same_dr \o test_space_rebuild
      \o test_space_update_diminfo \o test_select_point_chunk \o test_select_scalar_chunk
      \o test_select_bounds \o test_hyper_regular \o test_hyper_unlim
      \o test_internal_consistency \o test_irreg_io \o test_sel_iter
      \o test_select_intersect_block \o test_hyper_io_1d \o test_h5s_set_extent_none)

cleanup_select ==
    Test(<<Unchecked(Delete("tselect.h5"))>>)

=============================================================================
