-------------------------- MODULE MCGithubArchive --------------------------
(***************************************************************************)
(* GithubArchive for TLC: Nothing and two extractions with matches are all *)
(* a run can extract.                                                      *)
(***************************************************************************)
EXTENDS GithubArchive

CONSTANTS Names, OtherNames

MCExtractions == {Nothing, Names, OtherNames}
=============================================================================
