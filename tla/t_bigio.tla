------------------------------- MODULE t_bigio -------------------------------
\* t_bigio.c: a program that transfers more than two gigabytes at once.
EXTENDS TestSteps

\* One dataset of dataset_big_write, and of dataset_big_read.
LOCAL Transferred(selected) ==
    <<Make("file_dataspace", {"dataset"}), Use({"file_dataspace"}),
      Make("mem_dataspace", {}), Use(selected), Make("xfer_plist", {}), Use({"xfer_plist"}),
      Transfer("dataset", {"file_dataspace", "mem_dataspace", "xfer_plist"}),
      Unchecked(Close("file_dataspace")), Unchecked(Close("mem_dataspace")),
      Unchecked(Close("xfer_plist")), Close("dataset")>>
LOCAL Written(selected) ==
    <<Make("sid", {}), New("dataset", "fid", {"sid"}), Unchecked(Close("sid"))>>
    \o Transferred(selected)
LOCAL Reread(selected) == <<Open("dataset", "fid", {})>> \o Transferred(selected)

dataset_big_write ==
    Test(
      <<Make("acc_tpl", {}), Unchecked(Use({"acc_tpl"})),
        Create("fid", "bigio_test.h5", {"acc_tpl"}), Close("acc_tpl")>>
      \o Written({}) \o Written({}) \o Written({"mem_dataspace"}) \o Written({})
      \o <<Unchecked(Close("fid"))>>)

dataset_big_read ==
    Test(
      <<Make("acc_tpl", {}), Unchecked(Use({"acc_tpl"})),
        OpenFile("fid", "bigio_test.h5", {"acc_tpl"}), Close("acc_tpl")>>
      \o Reread({}) \o Reread({}) \o Reread({"mem_dataspace"}) \o Reread({})
      \o <<Unchecked(Close("fid"))>>)

coll_chunktest(all) ==
    Test(
      <<Make("acc_plist", {}), Create("file", "bigio_test.h5", {"acc_plist"}),
        Close("acc_plist"), Make("file_dataspace", {}), Make("mem_dataspace", {}),
        Make("crp_plist", {}), Use({"crp_plist"}),
        New("dataset", "file", {"crp_plist", "file_dataspace"}), Close("crp_plist"),
        Use({"file_dataspace", "mem_dataspace"}), Make("xfer_plist", {}),
        Use({"xfer_plist"}),
        Transfer("dataset", {"file_dataspace", "mem_dataspace", "xfer_plist"}),
        Close("dataset"), Close("xfer_plist"), Close("file_dataspace"),
        Close("mem_dataspace"), Close("file"), Make("acc_plist", {}),
        OpenFile("file", "bigio_test.h5", {"acc_plist"}), Close("acc_plist"),
        Open("dataset", "file", {}), Make("file_dataspace", {"dataset"}),
        Make("mem_dataspace", IF all THEN {} ELSE {"dataset"}),
        Use({"file_dataspace", "mem_dataspace"}), Make("xfer_plist", {}),
        Use({"xfer_plist"}),
        Transfer("dataset", {"file_dataspace", "mem_dataspace", "xfer_plist"}),
        Close("xfer_plist"), Close("dataset"), Close("file_dataspace"),
        Close("mem_dataspace"), Close("file")>>)

\* Eight selections; for the one that takes ALL of memory see coll_chunktest.
coll_chunk1 == coll_chunktest(FALSE) \o coll_chunktest(TRUE)
coll_chunk2 == coll_chunktest(FALSE) \o coll_chunktest(TRUE)
coll_chunk3 == coll_chunktest(FALSE) \o coll_chunktest(TRUE)

single_rank_independent_io ==
    Test(
      When("main",
          <<Make("fapl_id", {}), Unchecked(Use({"fapl_id"})),
            Alone(Create("file_id", "single_rank_independent_io.h5", {"fapl_id"})),
            Make("fspace_id", {}), New("dset_id", "file_id", {"fspace_id"}),
            Use({"dset_id", "fspace_id"}), Unchecked(Close("fspace_id")),
            Unchecked(Close("dset_id")), Unchecked(Close("file_id")),
            Alone(Unchecked(Delete("single_rank_independent_io.h5"))),
            Unchecked(Close("fapl_id"))>>)
      \o <<Sync("MPI_Barrier")>>)

main ==
    Test(
      <<Make("acc_plist", {}), Use({"acc_plist"})>>
      \o Needs({"FILE_BASIC", "DATASET_BASIC", "DATASET_MORE"},
            dataset_big_write \o <<Sync("MPI_Barrier")>>
            \o dataset_big_read \o <<Sync("MPI_Barrier")>>
            \o coll_chunk1 \o <<Sync("MPI_Barrier")>>
            \o coll_chunk2 \o <<Sync("MPI_Barrier")>>
            \o coll_chunk3 \o <<Sync("MPI_Barrier")>>
            \o single_rank_independent_io
            \o When("main",
                   <<Unchecked(Make("fapl_id", {})), Unchecked(Use({"fapl_id"})),
                     Alone(Unchecked(Delete("bigio_test.h5"))),
                     Alone(Unchecked(Delete("single_rank_independent_io.h5"))),
                     Unchecked(Close("fapl_id"))>>)
            \o <<Unchecked(Close("acc_plist"))>>)
      \o <<Sync("MPI_Finalize")>>)

==============================================================================
