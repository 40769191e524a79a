------------------------ MODULE MCCollectionPipeline ------------------------
(* Instances of CollectionPipeline for TLC. *)
EXTENDS CollectionPipeline

\* The collector that writes a fact, then stages its summary.
MCShort == <<"agent">>
=============================================================================
