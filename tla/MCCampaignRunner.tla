-------------------------- MODULE MCCampaignRunner --------------------------
(***************************************************************************)
(* Instances of CampaignRunner for TLC.                                    *)
(***************************************************************************)
EXTENDS CampaignRunner

\* The shape of build_default_campaign: failures that reveal a root cause, and the
\* retest of the root cause at the end.
DefaultRootCause == <<"bypass", "bypass", "no root">>
DefaultRetestOf  == <<"no root", "no root", "bypass">>
DefaultExpected  == <<"FAIL", "FAIL", "PASS">>

\* As in the default campaign, with a case whose expected status is ERROR.
ShortRootCause == <<"bypass", "no root", "no root">>
ShortRetestOf  == <<"no root", "no root", "bypass">>
ShortExpected  == <<"FAIL", "ERROR", "PASS">>

\* The retest comes before the case that reveals the root cause.
RetestFirstRootCause == <<"no root", "bypass">>
RetestFirstRetestOf  == <<"bypass", "no root">>
RetestFirstExpected  == <<"PASS", "FAIL">>
=============================================================================
