--------------------------- MODULE MCParallelTests ---------------------------
(* The programs of hdf5_testpar, on two ranks or, where tests depend on    *)
(* there being more, on three; and the dataset tests of vol_test_parallel. *)
EXTENDS FileSurvey

testphdf5 == INSTANCE testphdf5
t_bigio == INSTANCE t_bigio
t_pshutdown == INSTANCE t_pshutdown
t_shapesame == INSTANCE t_shapesame
vol_test_parallel == INSTANCE vol_dataset_test_parallel

On(n, main) == [mpi_size |-> n, tests |-> main]
Programs ==
    [ testphdf5   |-> testphdf5!main(3),
      t_bigio     |-> On(2, <<t_bigio!main>>),
      t_pshutdown |-> On(3, <<t_pshutdown!main>>),
      t_shapesame |-> On(2, <<t_shapesame!main>>),
      vol_dataset_test_parallel |-> On(2, vol_test_parallel!vol_dataset_test_parallel) ]
MCSuite == LET main == Programs IN main

AllFlags == {"FILE_BASIC", "GROUP_BASIC", "DATASET_BASIC", "DATASET_MORE", "ATTR_BASIC",
             "ATTR_MORE", "FILTERS", "FLUSH_REFRESH", "GET_PLIST"}
SomeConnectors == {AllFlags}
MCConnectors == SomeConnectors

\* The dataset tests by themselves.
DatasetTests ==
    [vol_dataset_test_parallel |-> Programs.vol_dataset_test_parallel]
DatasetSuite == LET main == DatasetTests IN main
=============================================================================
