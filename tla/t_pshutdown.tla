----------------------------- MODULE t_pshutdown -----------------------------
\* t_pshutdown.c: a program that ends with everything open, for the library to
\* close.
EXTENDS TestSteps

main ==
    <<Make("fapl", {}), Use({"fapl"})>>
    \o Needs({"FILE_BASIC", "GROUP_BASIC", "DATASET_BASIC"},
           <<Use({"fapl"}), Create("file_id", "shutdown.h5", {"fapl"}),
             New("grp_id", "file_id", {}), Make("sid", {}),
             New("dset_id", "grp_id", {"sid"}), Use({"sid"}), Make("mem_dataspace", {}),
             Use({"dset_id", "mem_dataspace", "sid"}), Sync("MPI_Finalize")>>)

==============================================================================
