----------------------------- MODULE t_span_tree -----------------------------
\* t_span_tree.c: selections made of several blocks, and of fewer dimensions
\* than their dataset.
EXTENDS TestSteps

coll_write_test ==
    Test(
      <<Make("facc_plist", {}), Create("file", "ParaTest.h5", {"facc_plist"}),
        Make("dcrt_plist", {}), Use({"dcrt_plist"}), Make("fspaceid", {}),
        New("datasetc", "file", {"dcrt_plist", "fspaceid"}),
        New("dataseti", "file", {"dcrt_plist", "fspaceid"}), Use({"fspaceid"}),
        Make("mspaceid1", {}), Use({"dataseti", "fspaceid", "mspaceid1"}),
        Make("dxfer_plist", {}), Use({"dxfer_plist"}),
        Transfer("datasetc", {"dxfer_plist", "fspaceid", "mspaceid1"}), Close("mspaceid1"),
        Close("fspaceid"), Close("datasetc"), Close("dataseti"), Close("file"),
        Close("facc_plist"), Close("dxfer_plist"), Close("dcrt_plist"),
        Make("facc_plist", {}), OpenFile("file", "ParaTest.h5", {"facc_plist"}),
        Open("datasetc", "file", {}), Open("dataseti", "file", {}),
        Make("fspaceid", {"datasetc"}), Make("fspaceid1", {"dataseti"}),
        Use({"fspaceid", "fspaceid1"}), Unchecked(Make("mspaceid", {})),
        Use({"datasetc", "dataseti", "fspaceid", "mspaceid"}), Close("mspaceid"),
        Close("fspaceid"), Close("dataseti"), Close("datasetc"), Close("facc_plist"),
        Close("file")>>)

coll_read_test ==
    Test(
      <<Make("facc_plist", {}), OpenFile("file", "ParaTest.h5", {"facc_plist"}),
        Open("dataseti", "file", {}), Make("fspaceid1", {"dataseti"}), Use({"fspaceid1"}),
        Unchecked(Make("mspaceid", {})), Use({"mspaceid"}), Make("dxfer_plist", {}),
        Use({"dxfer_plist"}),
        Transfer("dataseti", {"dxfer_plist", "fspaceid1", "mspaceid"}),
        Close("dxfer_plist"), Use({"dataseti", "fspaceid1", "mspaceid"}),
        Close("mspaceid"), Close("fspaceid1"), Close("dataseti"), Close("facc_plist"),
        Close("file")>>)

\* Contiguous, one chunk and several chunks: datasets laid out another way.
LOCAL Write == Test(Needs({"FILE_BASIC", "DATASET_BASIC", "DATASET_MORE"}, coll_write_test))
LOCAL Read == Test(Needs({"FILE_BASIC", "DATASET_BASIC", "DATASET_MORE"}, coll_read_test))
coll_irregular_cont_write == Write
coll_irregular_cont_read == Read
coll_irregular_simple_chunk_write == Write
coll_irregular_simple_chunk_read == Read
coll_irregular_complex_chunk_write == Write
coll_irregular_complex_chunk_read == Read

lower_dim_size_comp_test__select_checker_board(tgt_sid) == <<Use({tgt_sid})>>

\* The lists of a chunked dataset: H5Pcreate's result is not what is looked at.
lower_dim_size_comp_test__run_test(chunked) ==
    LET small_ds_dcpl == IF chunked THEN "small_ds_dcpl_id" ELSE "H5P_DEFAULT"
        large_ds_dcpl == IF chunked THEN "large_ds_dcpl_id" ELSE "H5P_DEFAULT"
    IN
    Test(
      <<Make("acc_tpl", {}), Create("fid", "ParaTest.h5", {"acc_tpl"}), Close("acc_tpl"),
        Make("full_mem_small_ds_sid", {}), Make("full_file_small_ds_sid", {}),
        Make("mem_small_ds_sid", {}), Make("file_small_ds_sid", {}),
        Make("full_mem_large_ds_sid", {}), Make("full_file_large_ds_sid", {}),
        Make("mem_large_ds_sid", {}), Make("file_large_ds_sid", {}),
        Use({"full_file_large_ds_sid", "full_file_small_ds_sid", "full_mem_large_ds_sid",
             "full_mem_small_ds_sid"})>>
      \o (IF chunked
          THEN <<Unchecked(Make("small_ds_dcpl_id", {})), Use({"small_ds_dcpl_id"}),
                 Unchecked(Make("large_ds_dcpl_id", {})), Use({"large_ds_dcpl_id"})>>
          ELSE << >>)
      \o <<
           New("small_dataset", "fid", {"file_small_ds_sid", small_ds_dcpl}),
           New("large_dataset", "fid", {"file_large_ds_sid", large_ds_dcpl}), Make("xfer_plist", {}),
           Use({"file_small_ds_sid", "mem_small_ds_sid", "xfer_plist"}),
           Transfer("small_dataset", {"file_small_ds_sid", "mem_small_ds_sid",
                "xfer_plist"}), Sync("MPI_Barrier"),
           Transfer("small_dataset", {"full_file_small_ds_sid", "full_mem_small_ds_sid",
                "xfer_plist"}), Sync("MPI_Barrier"),
           Use({"file_large_ds_sid", "mem_large_ds_sid"}),
           Transfer("large_dataset", {"file_large_ds_sid", "mem_large_ds_sid",
                "xfer_plist"}), Sync("MPI_Barrier"),
           Transfer("large_dataset", {"full_file_large_ds_sid", "full_mem_large_ds_sid",
                "xfer_plist"})>>
      \o lower_dim_size_comp_test__select_checker_board("file_small_ds_sid")
      \o lower_dim_size_comp_test__select_checker_board("mem_large_ds_sid")
      \o <<Use({"file_small_ds_sid", "mem_large_ds_sid"}),
           Transfer("small_dataset", {"file_small_ds_sid", "mem_large_ds_sid",
                "xfer_plist"})>>
      \o lower_dim_size_comp_test__select_checker_board("mem_small_ds_sid")
      \o lower_dim_size_comp_test__select_checker_board("file_large_ds_sid")
      \o <<Use({"file_large_ds_sid", "mem_small_ds_sid"}),
           Transfer("large_dataset", {"file_large_ds_sid", "mem_small_ds_sid",
                "xfer_plist"}), Close("full_mem_small_ds_sid"),
           Close("full_file_small_ds_sid"), Close("mem_small_ds_sid"),
           Close("file_small_ds_sid"), Close("full_mem_large_ds_sid"),
           Close("full_file_large_ds_sid"), Close("mem_large_ds_sid"),
           Close("file_large_ds_sid"), Close("small_dataset"), Close("large_dataset"),
           Close("fid")>>)

lower_dim_size_comp_test ==
    Test(
      Needs({"FILE_BASIC", "DATASET_BASIC"},
          Twice(
              lower_dim_size_comp_test__run_test(FALSE)
              \o lower_dim_size_comp_test__run_test(TRUE))))

link_chunk_collective_io_test ==
    Test(
      Needs({"FILE_BASIC", "DATASET_BASIC"},
          <<Make("acc_tpl", {}), Create("file_id", "ParaTest.h5", {"acc_tpl"}),
            Close("acc_tpl"), Make("write_mem_ds_sid", {}), Make("read_mem_ds_sid", {}),
            Make("file_ds_sid", {}), Make("ds_dcpl_id", {}), Use({"ds_dcpl_id"}),
            New("dset_id", "file_id", {"ds_dcpl_id", "file_ds_sid"}), Close("ds_dcpl_id"),
            Use({"file_ds_sid", "write_mem_ds_sid"}), Make("xfer_plist", {}),
            Use({"xfer_plist"}),
            Transfer("dset_id", {"file_ds_sid", "write_mem_ds_sid", "xfer_plist"}),
            Sync("MPI_Barrier"),
            Transfer("dset_id", {"file_ds_sid", "read_mem_ds_sid", "xfer_plist"}),
            Close("xfer_plist"), Close("write_mem_ds_sid"), Close("read_mem_ds_sid"),
            Close("file_ds_sid"), Close("dset_id"), Close("file_id")>>))

==============================================================================
