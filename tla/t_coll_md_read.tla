--------------------------- MODULE t_coll_md_read ----------------------------
\* t_coll_md_read.c: reads of metadata that some ranks have no part in.
EXTENDS TestSteps

test_partial_no_selection_coll_md_read ==
    Test(
      Needs({"FILE_BASIC", "DATASET_BASIC", "FLUSH_REFRESH"},
          <<Make("fapl_id", {}), Use({"fapl_id"}),
            Create("file_id", "ParaTest.h5", {"fapl_id"}), Make("fspace_id", {}),
            Make("dcpl_id", {}), Use({"dcpl_id"}),
            New("dset_id", "file_id", {"dcpl_id", "fspace_id"}), Use({"fspace_id"}),
            Make("mspace_id", {}), Make("dxpl_id", {}), Use({"dxpl_id"}),
            Transfer("dset_id", {"dxpl_id", "fspace_id", "mspace_id"}),
            Together("H5Fflush", "file_id", {}),
            Use({"dxpl_id", "fspace_id", "mspace_id"}),
            Transfer("dset_id", {"dxpl_id", "fspace_id", "mspace_id"}), Close("fspace_id"),
            Close("mspace_id"), Close("dcpl_id"), Close("dxpl_id"), Close("dset_id"),
            Close("fapl_id"), Close("file_id")>>))

test_multi_chunk_io_addrmap_issue ==
    Test(
      Needs({"FILE_BASIC", "DATASET_BASIC", "FLUSH_REFRESH"},
          <<Make("fapl_id", {}), Use({"fapl_id"}),
            Create("file_id", "ParaTest.h5", {"fapl_id"}), Make("space_id", {}),
            Make("dcpl_id", {}), Use({"dcpl_id"}),
            New("dset_id", "file_id", {"dcpl_id", "space_id"}), Make("dxpl_id", {}),
            Use({"dxpl_id", "space_id"}), Transfer("dset_id", {"dxpl_id", "space_id"}),
            Together("H5Fflush", "file_id", {}), Transfer("dset_id", {"dxpl_id"}),
            Close("space_id"), Close("dcpl_id"), Close("dxpl_id"), Close("dset_id"),
            Close("fapl_id"), Close("file_id")>>))

test_link_chunk_io_sort_chunk_issue ==
    Test(
      Needs({"FILE_BASIC", "DATASET_BASIC", "FLUSH_REFRESH"},
          <<Make("fapl_id", {}), Use({"fapl_id"}),
            Create("file_id", "ParaTest.h5", {"fapl_id"}), Make("fspace_id", {}),
            Make("dcpl_id", {}), Use({"dcpl_id"}),
            New("dset_id", "file_id", {"dcpl_id", "fspace_id"}), Use({"fspace_id"}),
            Make("mspace_id", {}), Make("dxpl_id", {}), Use({"dxpl_id"}),
            Transfer("dset_id", {"dxpl_id", "fspace_id", "mspace_id"}),
            Together("H5Fflush", "file_id", {}), Use({"dxpl_id", "fspace_id"}),
            Close("mspace_id"), Make("mspace_id", {}),
            Transfer("dset_id", {"dxpl_id", "fspace_id", "mspace_id"}), Close("fspace_id"),
            Close("mspace_id"), Close("dcpl_id"), Close("dxpl_id"), Close("dset_id"),
            Close("fapl_id"), Close("file_id")>>))

==============================================================================
