------------------------------- MODULE t_dset --------------------------------
\* t_dset.c: datasets written and read by independent and by collective
\* transfers, at a fixed size and while they grow.
EXTENDS TestSteps

\* The rows or columns a rank transfers: a dataspace of the file and one in memory.
LOCAL Selected(dset, mem) ==
    <<Make("file_dataspace", {dset}), Use({"file_dataspace"}), Make("mem_dataspace", mem),
      Use({"mem_dataspace"}), Make("xfer_plist", {}), Use({"xfer_plist"})>>
LOCAL Slab(dset) == Transfer(dset, {"file_dataspace", "mem_dataspace", "xfer_plist"})
LOCAL Released ==
    <<Unchecked(Close("file_dataspace")), Unchecked(Close("mem_dataspace")),
      Unchecked(Close("xfer_plist"))>>

dataset_writeInd ==
    Test(
      Needs({"FILE_BASIC", "DATASET_BASIC", "DATASET_MORE"},
          <<Make("acc_tpl", {}), Create("fid", "ParaTest.h5", {"acc_tpl"}), Close("acc_tpl"),
            Make("sid", {}), New("dataset1", "fid", {"sid"}),
            New("dataset2", "fid", {"sid"}), Make("file_dataspace", {"dataset1"}),
            Use({"file_dataspace"}), Make("mem_dataspace", {}),
            Use({"dataset1", "dataset2", "file_dataspace", "mem_dataspace"}),
            Unchecked(Close("file_dataspace")), Close("dataset1"), Close("dataset2"),
            Unchecked(Close("sid")), Unchecked(Close("fid"))>>))

dataset_readInd ==
    Test(
      Needs({"FILE_BASIC", "DATASET_BASIC", "DATASET_MORE"},
          <<Make("acc_tpl", {}), OpenFile("fid", "ParaTest.h5", {"acc_tpl"}),
            Close("acc_tpl"), Open("dataset1", "fid", {}), Open("dataset2", "fid", {}),
            Make("file_dataspace", {"dataset1"}), Use({"file_dataspace"}),
            Make("mem_dataspace", {}),
            Use({"dataset1", "dataset2", "file_dataspace", "mem_dataspace"}),
            Close("dataset1"), Close("dataset2"), Unchecked(Close("file_dataspace")),
            Unchecked(Close("fid"))>>))

dataset_writeAll ==
    Test(
      Needs({"FILE_BASIC", "DATASET_BASIC", "DATASET_MORE"},
          <<Make("acc_tpl", {}), Create("fid", "ParaTest.h5", {"acc_tpl"}),
            Close("acc_tpl"), Make("sid", {}), New("dataset1", "fid", {"sid"}),
            Unchecked(Make("datatype", {})), Use({"datatype"}),
            New("dataset2", "fid", {"datatype", "sid"}), New("dataset3", "fid", {"sid"}),
            New("dataset5", "fid", {"sid"}), New("dataset6", "fid", {"sid"}),
            New("dataset7", "fid", {"sid"}), Unchecked(Close("sid")), Make("sid", {}),
            New("dataset4", "fid", {"sid"}), Unchecked(Close("sid"))>>
          \o Selected("dataset1", {})
          \o <<Slab("dataset1"), Use({"file_dataspace", "mem_dataspace"}),
               Slab("dataset1")>>
          \o Released
          \o Selected("dataset1", {})
          \o <<Slab("dataset2"), Use({"file_dataspace", "mem_dataspace"}),
               Slab("dataset1")>>
          \o Released
          \o Selected("dataset3", {}) \o <<Slab("dataset3"), Slab("dataset3")>> \o Released
          \o Selected("dataset4", {}) \o <<Slab("dataset4"), Slab("dataset4")>> \o Released
          \o Selected("dataset5", {"dataset5"}) \o <<Slab("dataset5")>> \o Released
          \o Selected("dataset6", {"dataset6"}) \o <<Slab("dataset6")>> \o Released
          \o Selected("dataset7", {}) \o <<Slab("dataset7")>> \o Released
          \o <<Close("dataset1"), Close("dataset2"), Close("dataset3"), Close("dataset4"),
               Close("dataset5"), Close("dataset6"), Close("dataset7"),
               Unchecked(Close("fid"))>>))

dataset_readAll ==
    Test(
      Needs({"FILE_BASIC", "DATASET_BASIC", "DATASET_MORE"},
          <<Make("acc_tpl", {}), OpenFile("fid", "ParaTest.h5", {"acc_tpl"}),
            Close("acc_tpl"), Open("dataset1", "fid", {}), Open("dataset2", "fid", {}),
            Open("dataset5", "fid", {}), Open("dataset6", "fid", {}),
            Open("dataset7", "fid", {})>>
          \o Selected("dataset1", {})
          \o <<Slab("dataset1"), Use({"file_dataspace", "mem_dataspace"}),
               Slab("dataset1")>>
          \o Released
          \o Selected("dataset1", {})
          \o <<Slab("dataset2"), Use({"file_dataspace", "mem_dataspace"}),
               Slab("dataset1")>>
          \o Released
          \o Selected("dataset5", {"dataset5"}) \o <<Slab("dataset5")>> \o Released
          \o Selected("dataset6", {"dataset6"}) \o <<Slab("dataset6")>> \o Released
          \o Selected("dataset7", {"dataset7"}) \o <<Slab("dataset7")>> \o Released
          \o <<Close("dataset1"), Close("dataset2"), Close("dataset5"), Close("dataset6"),
               Close("dataset7"), Unchecked(Close("fid"))>>))

extend_writeInd ==
    Test(
      Needs({"FILE_BASIC", "DATASET_BASIC", "DATASET_MORE"},
          <<Make("acc_tpl", {}), Use({"acc_tpl"}), Create("fid", "ParaTest.h5", {"acc_tpl"}),
            Close("acc_tpl"), Make("dataset_pl", {}), Use({"dataset_pl"}), Make("sid", {}),
            New("dataset1", "fid", {"dataset_pl", "sid"}),
            New("dataset2", "fid", {"dataset_pl", "sid"}), Unchecked(Close("sid")),
            Unchecked(Close("dataset_pl")), Make("mem_dataspace", {}),
            Together("H5Dset_extent", "dataset1", {}),
            Make("file_dataspace", {"dataset1"}),
            Use({"dataset1", "file_dataspace", "mem_dataspace"}),
            Unchecked(Close("file_dataspace")), Unchecked(Close("mem_dataspace")),
            Make("mem_dataspace", {}), Make("file_dataspace", {"dataset2"}),
            Use({"dataset2", "file_dataspace", "mem_dataspace"}),
            Unchecked(Close("file_dataspace")), Together("H5Dset_extent", "dataset2", {}),
            Make("file_dataspace", {"dataset2"}),
            Use({"dataset2", "file_dataspace", "mem_dataspace"}), Close("file_dataspace"),
            Close("mem_dataspace"), Close("dataset1"), Close("dataset2"),
            Unchecked(Close("fid"))>>))

extend_readInd ==
    Test(
      Needs({"FILE_BASIC", "DATASET_BASIC", "DATASET_MORE"},
          <<Make("acc_tpl", {}), OpenFile("fid", "ParaTest.h5", {"acc_tpl"}),
            Close("acc_tpl"), Open("dataset1", "fid", {}), Open("dataset2", "fid", {}),
            Make("file_dataspace", {"dataset1"}), Use({"file_dataspace"}),
            Unchecked(Together("H5Dset_extent", "dataset1", {})),
            Unchecked(Close("file_dataspace")), Make("file_dataspace", {"dataset1"}),
            Use({"file_dataspace"}), Make("mem_dataspace", {}),
            Use({"dataset1", "file_dataspace", "mem_dataspace"}),
            Unchecked(Close("mem_dataspace")), Unchecked(Close("file_dataspace")),
            Make("file_dataspace", {"dataset2"}), Use({"file_dataspace"}),
            Make("mem_dataspace", {}),
            Use({"dataset2", "file_dataspace", "mem_dataspace"}),
            Unchecked(Close("mem_dataspace")), Unchecked(Close("file_dataspace")),
            Close("dataset1"), Close("dataset2"), Unchecked(Close("fid"))>>))

extend_writeAll ==
    Test(
      Needs({"FILE_BASIC", "DATASET_BASIC", "DATASET_MORE"},
          <<Make("acc_tpl", {}), Use({"acc_tpl"}), Create("fid", "ParaTest.h5", {"acc_tpl"}),
            Close("acc_tpl"), Make("dataset_pl", {}), Use({"dataset_pl"}), Make("sid", {}),
            New("dataset1", "fid", {"dataset_pl", "sid"}),
            New("dataset2", "fid", {"dataset_pl", "sid"}), Unchecked(Close("sid")),
            Unchecked(Close("dataset_pl")), Make("mem_dataspace", {}),
            Together("H5Dset_extent", "dataset1", {}),
            Make("file_dataspace", {"dataset1"}), Use({"file_dataspace"}),
            Make("xfer_plist", {}), Use({"xfer_plist"}),
            Slab("dataset1"),
            Unchecked(Close("file_dataspace")), Unchecked(Close("mem_dataspace")),
            Unchecked(Close("xfer_plist")), Make("mem_dataspace", {}),
            Make("xfer_plist", {}), Use({"xfer_plist"}),
            Make("file_dataspace", {"dataset2"}), Use({"file_dataspace"}),
            Unchecked(Slab("dataset2")), Unchecked(Close("file_dataspace")),
            Together("H5Dset_extent", "dataset2", {}),
            Make("file_dataspace", {"dataset2"}), Use({"file_dataspace"}),
            Slab("dataset2"),
            Close("file_dataspace"), Close("mem_dataspace"), Close("xfer_plist"),
            Close("dataset1"), Close("dataset2"), Unchecked(Close("fid"))>>))

extend_readAll ==
    Test(
      Needs({"FILE_BASIC", "DATASET_BASIC", "DATASET_MORE"},
          <<Make("acc_tpl", {}), OpenFile("fid", "ParaTest.h5", {"acc_tpl"}),
            Close("acc_tpl"), Open("dataset1", "fid", {}), Open("dataset2", "fid", {}),
            Make("file_dataspace", {"dataset1"}), Use({"file_dataspace"}),
            Unchecked(Together("H5Dset_extent", "dataset1", {})),
            Unchecked(Close("file_dataspace")), Make("file_dataspace", {"dataset1"}),
            Use({"file_dataspace"}), Make("mem_dataspace", {}), Make("xfer_plist", {}),
            Use({"xfer_plist"}),
            Slab("dataset1"),
            Unchecked(Close("mem_dataspace")), Unchecked(Close("file_dataspace")),
            Unchecked(Close("xfer_plist")), Make("file_dataspace", {"dataset2"}),
            Use({"file_dataspace"}), Make("mem_dataspace", {}), Make("xfer_plist", {}),
            Use({"xfer_plist"}),
            Slab("dataset2"),
            Unchecked(Close("mem_dataspace")), Unchecked(Close("file_dataspace")),
            Unchecked(Close("xfer_plist")), Close("dataset1"), Close("dataset2"),
            Unchecked(Close("fid"))>>))

extend_writeInd2 ==
    Test(
      Needs({"FILE_BASIC", "DATASET_BASIC", "DATASET_MORE"},
          <<Make("fapl", {}), Create("fid", "ParaTest.h5", {"fapl"}), Close("fapl"),
            Make("dcpl", {}), Use({"dcpl"}), Make("fs", {}),
            New("dataset", "fid", {"dcpl", "fs"}), Close("dcpl"), Make("ms", {}),
            Use({"dataset", "fs", "ms"}), Together("H5Dset_extent", "dataset", {}),
            Close("fs"), Make("fs", {"dataset"}), Use({"dataset", "fs", "ms"}),
            Close("dataset"), Close("fid")>>))

none_selection_chunk ==
    Test(
      Needs({"FILE_BASIC", "DATASET_BASIC"},
          <<Make("acc_tpl", {}), Create("fid", "ParaTest.h5", {"acc_tpl"}), Close("acc_tpl"),
            Make("dataset_pl", {}), Use({"dataset_pl"}), Make("sid", {}),
            New("dataset1", "fid", {"dataset_pl", "sid"}),
            New("dataset2", "fid", {"dataset_pl", "sid"}), Unchecked(Close("sid")),
            Unchecked(Close("dataset_pl")), Make("mem_dataspace", {}),
            Use({"mem_dataspace"}), Make("file_dataspace", {"dataset1"}),
            Use({"file_dataspace"}), Make("xfer_plist", {}), Use({"xfer_plist"}),
            Slab("dataset1"),
            Use({"dataset1", "dataset2", "file_dataspace", "mem_dataspace", "xfer_plist"}),
            Close("file_dataspace"), Close("mem_dataspace"), Close("xfer_plist"),
            Close("dataset1"), Close("dataset2"), Unchecked(Close("fid"))>>))

compress_readAll ==
    Test(
      Needs({"FILE_BASIC", "DATASET_BASIC"},
          Twice(
              When("main",
                  <<Alone(Create("fid", "ParaTest.h5", {})), Make("dcpl", {}),
                    Use({"dcpl"}), Make("dataspace", {}),
                    New("dataset", "fid", {"dataspace", "dcpl"}), Use({"dataset"}),
                    Close("dcpl"), Close("dataspace"), Close("dataset"), Close("fid")>>)
              \o <<Sync("MPI_Barrier"), Make("acc_tpl", {}),
                   OpenFile("fid", "ParaTest.h5", {"acc_tpl"}), Close("acc_tpl"),
                   Open("dataset", "fid", {}), Make("xfer_plist", {}), Use({"xfer_plist"}),
                   Transfer("dataset", {"xfer_plist"})>>
              \o When("parallel filtered writes", <<Transfer("dataset", {"xfer_plist"})>>)
              \o <<Close("xfer_plist"), Close("dataset"), Close("fid")>>)))

test_dense_attr ==
    Test(
      Needs({"FILE_BASIC", "GROUP_BASIC", "DATASET_BASIC", "ATTR_BASIC"},
          <<Make("fpid", {}), Use({"fpid"}), Create("fid", "ParaTest.h5", {"fpid"}),
            Close("fpid"), Make("gpid", {}), Use({"gpid"}), New("gid", "fid", {"gpid"}),
            Close("gpid"), Make("atFileSpace", {}), New("atid", "gid", {"atFileSpace"}),
            Close("atFileSpace"), Close("atid"), Close("gid"), Close("fid")>>))

==============================================================================
