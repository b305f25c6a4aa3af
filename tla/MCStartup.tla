------------------------------ MODULE MCStartup ------------------------------
(* A small instance of Startup: a test's home is /u, and the jail is the      *)
(* directory /j or a link to it, as a temporary directory is on some hosts.   *)
EXTENDS Startup

CONSTANTS a, b

Host == (<<>> :> DirNode) @@ (<<"j">> :> DirNode) @@ (<<"l">> :> LinkTo(<<"j">>))

\* One host has a repository in the home, and a file /p that is taken for a
\* directory.
Repo == Host @@ (<<"j", "u">> :> DirNode) @@ (<<"j", "u", ".git">> :> DirNode)
             @@ (<<"j", "p">> :> FileOf([x |-> a, y |-> a]))

MCKeys == {"XDG_CONFIG_HOME", "XDG_CACHE_HOME", "XDG_DATA_HOME", "XDG_STATE_HOME",
           "APPDATA", "LOCALAPPDATA", "APP_X"}

MCLiteral == [k \in MCKeys \cup {"HOME", "PWD"} |-> "$" \o k]

MCNames  == {MCLiteral[k] : k \in DOMAIN MCLiteral}
            \cup {"j", "l", "u", "p", "app", ".app", "config", ".git",
                  ".config", ".cache", ".local", "share", "state"}
MCWorlds == {[jail |-> <<"j">>, tree |-> Repo], [jail |-> <<"l">>, tree |-> Host]}
MCHomes  == {<<"u">>}

\* Ways to write the user's file, the project's, and another.
MCTexts  == {HomeText(<<".config", "app", "config">>), RelText(<<".app", "config">>),
             VarText("XDG_CONFIG_HOME", <<"p">>)}

MCEnvTexts == ("HOME" :> {HomeText(<<"p">>)}) @@ ("PWD" :> {VarText("HOME", <<Up, "p">>)})
              @@ ("XDG_CONFIG_HOME" :> {VarText("HOME", <<Up, "p">>)})
              @@ ("APP_X" :> {RelText(<<"p">>)})
MCEnvMaps  == {("HOME" :> AbsText(<<"p">>)) @@ ("PWD" :> HomeText(<<>>))}

MCRoots    == {Empty}
MCGitTops  == {AbsText(<<"p">>)}
MCFiles    == {[x |-> NoValue, y |-> b]}
MCFixtures == {(<<"config">> :> [x |-> b, y |-> b]) @@ (<<"app", "config">> :> [x |-> b, y |-> NoValue])}
MCDefault  == [x |-> a, y |-> a]
MCEnvVar   == [x |-> "APP_X"]

MCLayers == {"default", "user", "local", "env"}
MCRank   == [l \in MCLayers |-> CASE l = "default" -> 0 [] l = "env" -> 2 [] OTHER -> 1]
=============================================================================
