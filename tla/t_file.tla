------------------------------- MODULE t_file -------------------------------
\* t_file.c, and with it t_ph5basic.c and t_prop.c: files and the property lists
\* they are opened with.
EXTENDS TestSteps

\* FAULTY: the even ranks delete the file before they close it.
test_split_comm_access_deleting_early ==
    Test(
      Needs({"FILE_BASIC"},
          <<Sync("MPI_Comm_split")>>
          \o When("odd", <<Split(Sync("MPI_Barrier"))>>)
          \o Unless("odd",
                 <<Make("acc_tpl", {}), Split(Create("fid", "ParaTest.h5", {"acc_tpl"})),
                   Split(Delete("ParaTest.h5")), Close("fid"), Close("acc_tpl")>>)
          \o <<Sync("MPI_Barrier")>>))

\* The even ranks work on a file of their own; the odd ones only wait for each
\* other.
test_split_comm_access ==
    Test(
      Needs({"FILE_BASIC"},
          <<Sync("MPI_Comm_split")>>
          \o When("odd", <<Split(Sync("MPI_Barrier"))>>)
          \o Unless("odd",
                 <<Make("acc_tpl", {}), Split(Create("fid", "ParaTest.h5", {"acc_tpl"})),
                   Close("fid"), Split(Delete("ParaTest.h5")), Close("acc_tpl")>>)
          \o <<Sync("MPI_Barrier")>>))

\* FAULTY: the file opened last is not closed.
test_file_properties_leaving_open ==
    Test(
      Needs({"FILE_BASIC"},
          <<Make("fapl_id", {}), Create("fid", "ParaTest.h5", {"fapl_id"}), Close("fid"),
            OpenFile("fid", "ParaTest.h5", {"fapl_id"}), Close("fid"),
            OpenFile("fid", "ParaTest.h5", {"fapl_id"}), Close("fapl_id")>>))

test_file_properties ==
    Test(
      Needs({"FILE_BASIC"},
          <<Make("fapl_id", {}), Use({"fapl_id"}), Make("fapl_copy_id", {"fapl_id"}),
            Use({"fapl_copy_id", "fapl_id"}), Create("fid", "ParaTest.h5", {"fapl_id"}),
            Use({"fapl_id"}), Close("fid"), Use({"fapl_id"}),
            OpenFile("fid", "ParaTest.h5", {"fapl_id"}), Use({"fapl_id"}), Close("fid"),
            Use({"fapl_id"}), OpenFile("fid", "ParaTest.h5", {"fapl_id"}),
            Use({"fapl_id"}), Close("fapl_id"), Make("fapl_id", {"fid"}),
            Use({"fapl_id"}), Close("fid"), Close("fapl_id"), Close("fapl_copy_id")>>))

-----------------------------------------------------------------------------
\* t_ph5basic.c: an access property list keeps a copy of its communicator.

test_fapl_mpio_dup ==
    Test(
      <<Sync("MPI_Comm_split"), Make("acc_pl", {}), Use({"acc_pl"}),
        Unchecked(Close("acc_pl"))>>)

-----------------------------------------------------------------------------
\* t_prop.c: property lists sent from one rank to another.

\* recv_proc is rank 1 when there is one.
test_encode_decode(orig_pl) ==
    Test(
      When("main", <<Use({orig_pl})>>)
      \o When("second", <<Make("pl", {}), Use({"pl", orig_pl}), Close("pl")>>)
      \o <<Sync("MPI_Barrier")>>)

test_plist_ed ==
    LET Encoded(pl) == test_encode_decode(pl) \o <<Close(pl)>>
        Listed(pl) == <<Make(pl, {}), Use({pl})>> \o Encoded(pl)
    IN  Test(
          Listed("dcpl") \o Listed("dapl") \o Listed("ocpl") \o Listed("dxpl")
          \o Listed("gcpl") \o Listed("lcpl")
          \o <<Make("lapl", {}), Use({"lapl"}), Make("fapl", {}), Use({"fapl", "lapl"}),
               Close("fapl")>>
          \o Encoded("lapl") \o Listed("ocpypl") \o Listed("fapl") \o Listed("fcpl")
          \o Listed("strcpl") \o Listed("acpl"))
=============================================================================
