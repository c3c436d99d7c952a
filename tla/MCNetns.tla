------------------------------ MODULE MCNetns ------------------------------
(* One test with one namespace or a pair, on every kind of machine.  Two    *)
(* datagrams against a capture of two packets: none, some or all are seen.  *)
EXTENDS Netns

============================================================================
