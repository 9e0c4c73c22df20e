----------------------------- MODULE MCSceneAudio -----------------------------
(* Scripts of up to three scenes, silent ones among them, of up to two       *)
(* sentences of two lengths.                                                 *)
EXTENDS SceneAudio

MCScenes == {<<>>, <<2>>, <<5>>, <<2, 5>>, <<5, 2>>}

MCScripts == {<<s>> : s \in MCScenes} \cup (MCScenes \X MCScenes) \cup
             (MCScenes \X {<<>>, <<2, 5>>} \X {<<>>, <<2>>})

MCEstimates == {3, 4}
=============================================================================
