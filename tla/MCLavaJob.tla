----------------------------- MODULE MCLavaJob -----------------------------
(* LavaJob for one dispatcher process: every exception the loop tells      *)
(* apart, jobs of none to three actions, up to two SIGTERM signals.        *)
EXTENDS LavaJob

MCMaxTerms == [n \in Node |-> 2]

MCPrograms == { <<>>,
                <<"boot_android", "android_test", "other">>,
                <<"other", "lava_test">>,
                <<"boot_android", "android_test">> }
=============================================================================
