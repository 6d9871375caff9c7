------------------------------ MODULE testphdf5 ------------------------------
\* testphdf5.c: the main program of the parallel tests.
EXTENDS TestSteps

LOCAL file == INSTANCE t_file
LOCAL dset == INSTANCE t_dset
LOCAL chunk_alloc == INSTANCE t_chunk_alloc
LOCAL filter_read == INSTANCE t_filter_read
LOCAL mdset == INSTANCE t_mdset
LOCAL coll_chunk == INSTANCE t_coll_chunk
LOCAL span_tree == INSTANCE t_span_tree
LOCAL coll_md_read == INSTANCE t_coll_md_read

\* The tests main runs, and what it does before and after them.
LOCAL main_tests(mpi_size) ==
    LET fapl == "fapl of main" IN
    << <<Make(fapl, {}), Use({fapl})>>,
      file!test_fapl_mpio_dup, file!test_split_comm_access,
      file!test_file_properties, dset!dataset_writeInd, dset!dataset_readInd,
      dset!dataset_writeAll, dset!dataset_readAll, dset!extend_writeInd,
      dset!extend_readInd, dset!extend_writeAll, dset!extend_readAll,
      dset!extend_writeInd2, dset!none_selection_chunk, chunk_alloc!test_chunk_alloc,
      filter_read!test_filter_read, dset!compress_readAll, mdset!zero_dim_dset,
      mdset!multiple_dset_write, mdset!multiple_group_write, mdset!multiple_group_read,
      mdset!compact_dataset, mdset!collective_group_write_independent_group_read,
      mdset!big_dataset, mdset!dataset_fillvalue, coll_chunk!coll_chunk1,
      coll_chunk!coll_chunk2, coll_chunk!coll_chunk3, coll_chunk!coll_chunk4>>
    \o (IF mpi_size >= 3
        THEN <<coll_chunk!coll_chunk5, coll_chunk!coll_chunk6, coll_chunk!coll_chunk7,
               coll_chunk!coll_chunk8, coll_chunk!coll_chunk9, coll_chunk!coll_chunk10>>
        ELSE << >>)
    \o <<span_tree!coll_irregular_cont_write, span_tree!coll_irregular_cont_read,
         span_tree!coll_irregular_simple_chunk_write,
         span_tree!coll_irregular_simple_chunk_read,
         span_tree!coll_irregular_complex_chunk_write,
         span_tree!coll_irregular_complex_chunk_read, mdset!null_dataset,
         mdset!io_mode_confusion>>
    \o (IF mpi_size > 2 THEN <<mdset!rr_obj_hdr_flush_confusion>> ELSE << >>)
    \o <<mdset!chunk_align_bug_1, span_tree!lower_dim_size_comp_test,
         span_tree!link_chunk_collective_io_test, file!test_plist_ed,
         dset!test_dense_attr, coll_md_read!test_partial_no_selection_coll_md_read,
         coll_md_read!test_multi_chunk_io_addrmap_issue,
         coll_md_read!test_link_chunk_io_sort_chunk_issue,
         <<Unchecked(Use({fapl})), Sync("MPI_Barrier"), Unchecked(Delete("ParaTest.h5")),
           Unchecked(Close(fapl)), Sync("MPI_Allreduce"), Sync("MPI_Finalize")>> >>

\* The program on mpi_size ranks.
main(mpi_size) == [mpi_size |-> mpi_size, tests |-> main_tests(mpi_size)]
=============================================================================
