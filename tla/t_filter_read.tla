---------------------------- MODULE t_filter_read ----------------------------
\* t_filter_read.c: one rank writes through filters, all of them read.
EXTENDS TestSteps

filter_read_internal(dcpl) ==
    Test(
      <<Make("sid", {}), Use({dcpl})>>
      \o When("main",
             <<Alone(Create("file", "ParaTest.h5", {})),
               New("dataset", "file", {"sid", dcpl}), Use({"dataset"}), Close("dataset"),
               Close("file")>>)
      \o <<Sync("MPI_Barrier"), Make("access_plist", {}), Use({"access_plist"}),
           OpenFile("file", "ParaTest.h5", {"access_plist"}), Open("dataset", "file", {}),
           Use({"sid"}), Make("memspace", {}), Use({"dataset", "memspace", "sid"}),
           Close("dataset"), Close("sid"), Close("memspace"), Close("access_plist"),
           Close("file"), Sync("MPI_Barrier")>>)

\* Steps 0 to 6, each with a list of its own.
test_filter_read ==
    LET dc == <<Make("dc", {}), Use({"dc"})>>
        Filtered == dc \o filter_read_internal("dc") \o <<Close("dc")>>
    IN  Test(
          Needs({"FILE_BASIC", "DATASET_BASIC", "FILTERS"},
              Filtered
              \o Twice(
                     dc \o <<Close("dc")>> \o Twice(Filtered)
                     \o When("szip encodes", Filtered))
              \o Filtered \o Twice(Filtered)
              \o dc \o When("szip encodes", filter_read_internal("dc")) \o <<Close("dc")>>
              \o When("szip encodes", Filtered)))

==============================================================================
