---------------------------- MODULE t_coll_chunk -----------------------------
\* t_coll_chunk.c: collective transfers of a chunked dataset, one test for each
\* way the ranks select and the library splits the transfer.
EXTENDS TestSteps

\* The selections of coll_chunktest's arguments only shape what is transferred; ALL
\* in memory takes a dataspace of its own instead of the dataset's.
coll_chunktest(all) ==
    LET mem_dataspace == Make("mem_dataspace", IF all THEN {} ELSE {"dataset"})
    IN  Test(
      <<Make("acc_plist", {}), Create("file", "ParaTest.h5", {"acc_plist"}),
        Close("acc_plist"), Make("file_dataspace", {}), Make("mem_dataspace", {}),
        Make("crp_plist", {}), Use({"crp_plist"}),
        New("dataset", "file", {"crp_plist", "file_dataspace"}), Close("crp_plist"),
        Use({"file_dataspace", "mem_dataspace"}), Make("xfer_plist", {}),
        Use({"xfer_plist"}),
        Transfer("dataset", {"file_dataspace", "mem_dataspace", "xfer_plist"}),
        Close("dataset"), Close("xfer_plist"), Close("file_dataspace"),
        Close("mem_dataspace"), Close("file"), Make("acc_plist", {}),
        OpenFile("file", "ParaTest.h5", {"acc_plist"}), Close("acc_plist"),
        Open("dataset", "file", {}), Make("file_dataspace", {"dataset"}), mem_dataspace,
        Use({"file_dataspace", "mem_dataspace"}), Make("xfer_plist", {}),
        Use({"xfer_plist"}),
        Transfer("dataset", {"file_dataspace", "mem_dataspace", "xfer_plist"}),
        Close("xfer_plist"), Close("dataset"), Close("file_dataspace"),
        Close("mem_dataspace"), Close("file")>>)

\* Eight calls, with and without ALL.
LOCAL EverySelection ==
    Test(
      Needs({"FILE_BASIC", "DATASET_BASIC", "DATASET_MORE"},
          coll_chunktest(FALSE) \o Twice(coll_chunktest(TRUE))))

coll_chunk1 == EverySelection
coll_chunk2 == EverySelection
coll_chunk3 == EverySelection
coll_chunk4 == EverySelection
coll_chunk5 == EverySelection
coll_chunk6 == EverySelection
coll_chunk7 == EverySelection
coll_chunk8 == EverySelection
coll_chunk9 == EverySelection
coll_chunk10 == EverySelection

==============================================================================
