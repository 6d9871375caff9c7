------------------------------- MODULE t_mdset -------------------------------
\* t_mdset.c: many datasets and groups in one file, compact, null and big
\* datasets, fill values, and ranks that do different things.
EXTENDS TestSteps

zero_dim_dset ==
    Test(
      Needs({"FILE_BASIC", "DATASET_BASIC"},
          <<Make("plist", {}), Create("fid", "ParaTest.h5", {"plist"}), Close("plist"),
            Make("dcpl", {}), Use({"dcpl"}), Make("sid", {}),
            New("dsid", "fid", {"dcpl", "sid"}), Use({"dsid", "sid"}),
            Unchecked(Close("dcpl")), Unchecked(Close("dsid")), Unchecked(Close("sid")),
            Unchecked(Close("fid"))>>))

multiple_dset_write ==
    Test(
      Needs({"FILE_BASIC", "DATASET_BASIC"},
          <<Make("plist", {}), Create("iof", "ParaTest.h5", {"plist"}), Close("plist"),
            Unchecked(Make("memspace", {})), Unchecked(Make("filespace", {})),
            Use({"filespace"}), Make("dcpl", {}), Use({"dcpl"})>>
          \o Twice(
                 <<New("dataset", "iof", {"dcpl", "filespace"}),
                   Unchecked(Use({"dataset", "filespace", "memspace"})),
                   Unchecked(Close("dataset"))>>)
          \o <<Unchecked(Close("filespace")), Unchecked(Close("memspace")),
               Unchecked(Close("dcpl")), Unchecked(Close("iof"))>>))

compact_dataset ==
    Test(
      Needs({"FILE_BASIC", "DATASET_BASIC"},
          <<Unchecked(Make("plist", {})), Unchecked(Create("iof", "ParaTest.h5", {"plist"})),
            Unchecked(Make("filespace", {})), Make("dcpl", {}), Use({"dcpl"}),
            New("dataset", "iof", {"dcpl", "filespace"}), Make("dxpl", {}), Use({"dxpl"}),
            Transfer("dataset", {"dxpl"}), Unchecked(Close("dcpl")),
            Unchecked(Close("plist")), Unchecked(Close("dataset")),
            Unchecked(Close("filespace")), Unchecked(Close("iof")),
            Unchecked(Make("plist", {})), OpenFile("iof", "ParaTest.h5", {"plist"}),
            Make("dxpl", {}), Use({"dxpl"}), Open("dataset", "iof", {}),
            Transfer("dataset", {"dxpl"}), Unchecked(Close("plist")),
            Unchecked(Close("dxpl")), Unchecked(Close("dataset")),
            Unchecked(Close("iof"))>>))

null_dataset ==
    Test(
      Needs({"FILE_BASIC", "DATASET_BASIC", "ATTR_BASIC"},
          <<Unchecked(Make("plist", {})), Unchecked(Create("iof", "ParaTest.h5", {"plist"})),
            Unchecked(Make("sid", {})), Use({"sid"}), New("dataset", "iof", {"sid"}),
            Make("dxpl", {}), Use({"dxpl"}), Transfer("dataset", {"dxpl"}),
            New("attr", "dataset", {"sid"}), Together("H5Awrite", "attr", {}),
            Unchecked(Close("attr")), Unchecked(Close("dataset")),
            Unchecked(Close("plist")), Unchecked(Close("sid")), Unchecked(Close("iof")),
            Unchecked(Make("plist", {})), OpenFile("iof", "ParaTest.h5", {"plist"}),
            Make("dxpl", {}), Use({"dxpl"}), Open("dataset", "iof", {}),
            Transfer("dataset", {"dxpl"}), Open("attr", "dataset", {}), Use({"attr"}),
            Unchecked(Close("plist")), Unchecked(Close("dxpl")), Unchecked(Close("attr")),
            Unchecked(Close("dataset")), Unchecked(Close("iof"))>>))

big_dataset ==
    Test(
      Needs({"FILE_BASIC", "DATASET_BASIC"},
          <<Make("fapl", {}), Create("iof", "ParaTest.h5", {"fapl"}), Make("filespace", {}),
            New("dataset", "iof", {"filespace"}), Close("dataset"), Close("filespace"),
            Close("iof"), Create("iof", "ParaTest.h5", {"fapl"}), Make("filespace", {}),
            New("dataset", "iof", {"filespace"}), Close("dataset"), Close("filespace"),
            Close("iof"), Create("iof", "ParaTest.h5", {"fapl"}), Make("filespace", {}),
            New("dataset", "iof", {"filespace"}), Close("dataset"), Close("filespace"),
            Close("iof"), Close("fapl")>>))

dataset_fillvalue ==
    LET Reads == <<Unchecked(Use({"dxpl"})), Use({"dataset", "dxpl"}),
                   Unchecked(Use({"dxpl"})), Transfer("dataset", {"dxpl"})>>
    IN Test(
      Needs({"FILE_BASIC", "DATASET_BASIC"},
          <<Make("fapl", {}), Create("iof", "ParaTest.h5", {"fapl"}),
            Make("filespace", {}), New("dataset", "iof", {"filespace"}),
            Make("memspace", {}), Make("dxpl", {})>>
          \o Reads
          \o <<Sync("MPI_Barrier"), Use({"dxpl", "filespace", "memspace"}),
               Transfer("dataset", {"dxpl", "filespace", "memspace"}),
               Sync("MPI_Barrier")>>
          \o Reads
          \o <<Close("dataset"), Close("filespace"), Close("iof"), Close("memspace"),
               Close("dxpl"), Close("fapl")>>))

collective_group_write ==
    Test(
      Needs({"FILE_BASIC", "GROUP_BASIC", "DATASET_BASIC"},
          <<Unchecked(Make("plist", {})), Create("fid", "ParaTest.h5", {"plist"}),
            Unchecked(Close("plist")), Unchecked(Make("memspace", {})),
            Unchecked(Use({"memspace"})), Make("filespace", {}),
            Unchecked(Use({"filespace"})), Make("dcpl", {}), Use({"dcpl"})>>
          \o Twice(
                 <<New("gid", "fid", {}), New("did", "gid", {"dcpl", "filespace"}),
                   Use({"did", "filespace", "memspace"}), Close("did"), Close("gid")>>)
          \o <<Unchecked(Close("dcpl")), Unchecked(Close("filespace")),
               Unchecked(Close("memspace")), Close("fid")>>))

\* Without collective metadata operations a rank opens objects alone.
group_dataset_read(fid) ==
    Test(
      <<Alone(Open("gid", fid, {})), Open("did", "gid", {}), Unchecked(Use({"did"})),
        Close("did"), Close("gid")>>)

\* The loop of the even ranks (m = ngroups-1; m == 0; m -= 2) makes no round.
independent_group_read ==
    Test(
      Needs({"FILE_BASIC", "GROUP_BASIC", "DATASET_BASIC"},
          <<Unchecked(Make("plist", {})), Unchecked(Use({"plist"})),
            OpenFile("fid", "ParaTest.h5", {"plist"}), Unchecked(Close("plist"))>>
          \o When("odd", Twice(group_dataset_read("fid")))
          \o <<Close("fid")>>))

collective_group_write_independent_group_read ==
    Test(collective_group_write \o independent_group_read)

write_attribute(obj_id) ==
    Test(
      <<Unchecked(Make("sid", {})), Unchecked(New("aid", obj_id, {"sid"})),
        Unchecked(Together("H5Awrite", "aid", {})), Unchecked(Close("aid")),
        Unchecked(Close("sid"))>>)

write_dataset(memspace, filespace, gid) ==
    Test(
      Twice(
          <<New("did", gid, {filespace}), Unchecked(Use({"did", filespace, memspace}))>>
          \o write_attribute("did")
          \o <<Unchecked(Close("did"))>>))

\* The group of the next level is made while this one is open.
create_group_recursive(memspace, filespace, gid) ==
    LET Level(child, parent, below) ==
            Test(<<New(child, parent, {})>>
                 \o write_dataset(memspace, filespace, parent)
                 \o below
                 \o <<Unchecked(Close(child))>>)
    IN  Level("child_gid", gid, Level("child_gid of the next level", "child_gid", << >>))

multiple_group_write ==
    Test(
      Needs({"FILE_BASIC", "GROUP_BASIC", "DATASET_BASIC", "ATTR_BASIC"},
          <<Unchecked(Make("plist", {})), Unchecked(Create("fid", "ParaTest.h5", {"plist"})),
            Unchecked(Close("plist")), Make("memspace", {}), Use({"memspace"}),
            Make("filespace", {}), Use({"filespace"})>>
          \o BothWays("m!=0",
                 <<New("gid", "fid", {})>>
                 \o write_attribute("gid")
                 \o When("m!=0", write_dataset("memspace", "filespace", "gid"))
                 \o <<Unchecked(Close("gid"))>>)
          \o <<Unchecked(Open("gid", "fid", {}))>>
          \o create_group_recursive("memspace", "filespace", "gid")
          \o <<Close("gid"), Close("filespace"), Close("memspace"), Close("fid")>>))

read_attribute(obj_id) ==
    Test(
      <<Unchecked(Open("aid", obj_id, {})), Unchecked(Use({"aid"})),
        Unchecked(Close("aid"))>>)

read_dataset(memspace, filespace, gid) ==
    Test(
      Twice(
          <<Open("did", gid, {}), Unchecked(Use({"did", filespace, memspace}))>>
          \o read_attribute("did")
          \o <<Unchecked(Close("did"))>>))

recursive_read_group(memspace, filespace, gid) ==
    LET Level(child, parent, below) ==
            Test(read_dataset(memspace, filespace, parent)
                 \o <<Open(child, parent, {})>> \o below \o <<Unchecked(Close(child))>>)
    IN  Level("child_gid", gid,
              Level("child_gid of the next level", "child_gid",
                    read_dataset(memspace, filespace, "child_gid of the next level")))

multiple_group_read ==
    Test(
      Needs({"FILE_BASIC", "GROUP_BASIC", "DATASET_BASIC", "ATTR_BASIC"},
          <<Unchecked(Make("plist", {})),
            Unchecked(OpenFile("fid", "ParaTest.h5", {"plist"})), Unchecked(Close("plist")),
            Unchecked(Make("memspace", {})), Unchecked(Use({"memspace"})),
            Unchecked(Make("filespace", {})), Unchecked(Use({"filespace"}))>>
          \o BothWays("m!=0",
                 <<Open("gid", "fid", {})>>
                 \o When("m!=0", read_dataset("memspace", "filespace", "gid"))
                 \o read_attribute("gid")
                 \o <<Unchecked(Close("gid"))>>)
          \o <<Open("gid", "fid", {})>>
          \o recursive_read_group("memspace", "filespace", "gid")
          \o <<Unchecked(Close("gid")), Unchecked(Close("filespace")),
               Unchecked(Close("memspace")), Unchecked(Close("fid"))>>))

io_mode_confusion ==
    Test(
      Needs({"FILE_BASIC", "DATASET_BASIC", "DATASET_MORE"},
          <<Make("plist_id", {}), Use({"plist_id"}),
            Create("file_id", "ParaTest.h5", {"plist_id"}), Close("plist_id"),
            Make("filespace", {}), New("dset_id", "file_id", {"filespace"}),
            Close("filespace"), Make("memspace", {}), Use({"memspace"}),
            Sync("MPI_Barrier"), Make("filespace", {"dset_id"}), Use({"filespace"}),
            Sync("MPI_Barrier"), Make("plist_id", {}), Use({"plist_id"}),
            Transfer("dset_id", {"filespace", "memspace", "plist_id"}), Close("dset_id"),
            Close("filespace"), Close("memspace"), Close("plist_id"), Close("file_id")>>))

Reader_wait == <<Sync("MPI_Bcast of steps")>>
Reader_result == <<Sync("MPI_Bcast of steps_done")>>
Reader_check == Reader_wait \o Reader_result

rr_obj_hdr_flush_confusion_reader ==
    LET Step1 ==
            <<Open("dataset", "file_id", {}), Make("disk_space", {"dataset"}),
              Make("dxpl_id", {}), Use({"disk_space", "dxpl_id"}), Make("mem_space", {}),
              Use({"mem_space"}),
              Transfer("dataset", {"disk_space", "dxpl_id", "mem_space"}),
              Close("disk_space"), Close("mem_space")>>
        Step2 == <<Open("att_id", "dataset", {}), Make("att_type", {"att_id"}),
                   Use({"att_id", "att_type"}), Close("att_id")>>
        Step3Or4 == <<Open("lg_att_id", "dataset", {}),
                      Unchecked(Make("lg_att_type", {"lg_att_id"})),
                      Use({"lg_att_id", "lg_att_type"}), Close("lg_att_type"),
                      Close("lg_att_id")>>
        Round(s) ==
            Reader_wait
            \o <<Make("fapl_id", {}), Use({"fapl_id"}),
                 Split(OpenFile("file_id", "ParaTest.h5", {"fapl_id"})), Close("fapl_id")>>
            \o s
            \o <<Close("dataset"), Close("dxpl_id"), Close("file_id")>>
            \o Reader_result
        All == Step1 \o Step2 \o Step3Or4
    IN  Test(Round(Step1) \o Round(Step1 \o Step2) \o Round(All) \o Round(All)
             \o Round(All) \o Reader_check)

rr_obj_hdr_flush_confusion_writer ==
    LET Flush == <<Together("H5Fflush", "file_id", {})>>
    IN Test(
      <<Make("fapl_id", {}), Use({"fapl_id"}),
        Split(Create("file_id", "ParaTest.h5", {"fapl_id"})), Close("fapl_id"),
        Make("disk_space", {}), New("dataset", "file_id", {"disk_space"}),
        Make("dxpl_id", {}), Use({"disk_space", "dxpl_id"}), Make("mem_space", {}),
        Use({"mem_space"}), Transfer("dataset", {"disk_space", "dxpl_id", "mem_space"}),
        Close("disk_space"), Close("mem_space")>>
      \o Flush \o Reader_check
      \o <<Make("att_space", {}), New("att_id", "dataset", {"att_space"}),
           Together("H5Awrite", "att_id", {}), Close("att_space"), Close("att_id")>>
      \o Flush \o Reader_check
      \o <<Make("lg_att_space", {}), New("lg_att_id", "dataset", {"lg_att_space"}),
           Together("H5Awrite", "lg_att_id", {})>>
      \o Flush \o Reader_check
      \o <<Together("H5Awrite", "lg_att_id", {})>>
      \o Flush \o Reader_check
      \o <<Close("lg_att_space"), Close("lg_att_id"), Close("dataset"), Close("dxpl_id"),
           Close("file_id")>>
      \o Reader_check \o Reader_check)

\* The even ranks write, each step checked by the odd ranks while the file is
\* open; both on a communicator of their own.
rr_obj_hdr_flush_confusion ==
    Test(
      Needs({"FILE_BASIC", "DATASET_BASIC", "FLUSH_REFRESH", "ATTR_BASIC", "ATTR_MORE"},
          <<Sync("MPI_Comm_split")>>
          \o When("odd", rr_obj_hdr_flush_confusion_reader)
          \o Unless("odd", rr_obj_hdr_flush_confusion_writer)))

chunk_align_bug_1 ==
    Test(
      Needs({"FILE_BASIC", "DATASET_BASIC"},
          <<Make("fapl_id", {}), Create("file_id", "ParaTest.h5", {"fapl_id"}),
            Close("file_id"), Use({"fapl_id"}),
            OpenFile("file_id", "ParaTest.h5", {"fapl_id"}), Make("space_id", {}),
            Make("dcpl_id", {}), Use({"dcpl_id"}),
            New("dset_id", "file_id", {"dcpl_id", "space_id"}),
            Unchecked(Close("dset_id")), Unchecked(Close("space_id")),
            Unchecked(Close("dcpl_id")), Close("fapl_id"), Close("file_id")>>))

==============================================================================
