-------------------------------- MODULE MCParts --------------------------------
(***************************************************************************)
(* The small instances of the components of Parts.                          *)
(***************************************************************************)
EXTENDS Parts, TLC

CONSTANTS
  Album, Trip,    \* galleries
  Photo, Movie    \* images

\* Two revisions of the catalog: a gallery moves from the front to the back, another
\* one inside of it goes, and a picture changes its place.
MCTrees ==
  << [root |-> <<Album, Photo>>, inside |-> [g \in {Album} |-> <<Trip, Movie>>]],
     [root |-> <<Movie, Album>>, inside |-> [g \in {Album} |-> <<Photo>>]] >>

\* A still picture and two animations of different lengths.
MCFrameCount == (Album :> 2) @@ (Trip :> 3) @@ (Photo :> 1)

\* Shortcuts as they are typed: two spellings of one, and another.
MCAccelerators ==
  {Accelerator(<<"ctrl">>, "f", TRUE), Accelerator(<<"ctrl", "primary">>, "f", TRUE),
   Accelerator(<<"alt">>, "f4", FALSE)}

\* The least and the greatest costs that are allowed, and one that is not.
MCCosts == {<<8, 1, 1>>, <<7, 1, 1>>, <<1048576, 10, 16>>}

MCPayloads == {<<>>, <<7>>, <<7, 0>>, <<1, 2, 3>>}

\* A canvas that two frames of just fit, and one that is too wide.
MCCanvases == {<<2, 2>>, <<5, 1>>}

MCMaxResult == [Thumbnail |-> 100, Viewer |-> 80]
=============================================================================
