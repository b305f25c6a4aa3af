----------------------------- MODULE MCRuntime ------------------------------
(* Small instances of Runtime for TLC.  /a and /b are jails; /a/h is a     *)
(* file, so the home /h is a directory in the jail /b only; the name dots  *)
(* begins with "..".                                                       *)
EXTENDS Runtime, TLC

CONSTANTS r1, r2, a, b, h, dots, tmp

MCJails == {<<a>>, <<b>>, NoJail}
MCHomes == {<<h>>}
MCFiles == {<<a, h>>}
MCDirs  == {[base |-> "root", rest |-> <<dots>>], [base |-> "parent", rest |-> <<>>],
            [base |-> "home", rest |-> <<>>], [base |-> "here", rest |-> <<>>],
            [base |-> "wd", rest |-> <<h>>]}
MCHomeDirs == {[base |-> "root", rest |-> <<h>>]}
MCTemps == {<<a>>}

\* The runtimes are alike.
Alike == Permutations(Runtimes)
=============================================================================
