-------------------------- MODULE MCJobApplications --------------------------
(***************************************************************************)
(* A small instance of JobApplications: pages of one row, three            *)
(* applications, two stages of which one or both come from the setup.      *)
(***************************************************************************)
EXTENDS JobApplications

MCSetups == {<<FALSE>>, <<FALSE, TRUE>>}
=============================================================================
