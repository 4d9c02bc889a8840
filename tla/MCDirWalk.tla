----------------------------- MODULE MCDirWalk -----------------------------
(* Values for the constants of DirWalk.                                    *)
EXTENDS DirWalk, TLC

CONSTANTS root, x, y, z

(* x/x/x makes the walk climb two levels, y and z make it meet brothers    *)
(* with and without subfolders.                                            *)
MCPaths ==
  {<<root>>, <<root, x>>, <<root, y>>, <<root, z>>, <<root, x, x>>,
   <<root, x, y>>, <<root, x, x, x>>, <<root, y, x>>}

MCDefault == {<<root, x>>}
=============================================================================
