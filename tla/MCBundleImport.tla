--------------------------- MODULE MCBundleImport ---------------------------
\* One finding that its owner revises, and two evidence files; a bundle per
\* revision, delivered in any order.
EXTENDS BundleImport, TLC

CONSTANTS finding, image, capture, first, second, third

MCUploads == {image, capture}
MCRecords == {finding} \cup MCUploads
MCBundles == {first, second, third}
MCCarries == first :> (finding :> 1 @@ image :> 0 @@ capture :> 0)
          @@ second :> (finding :> 2 @@ image :> 0 @@ capture :> 1)
          @@ third :> (finding :> 3 @@ image :> 1 @@ capture :> 1)
Symmetry == Permutations(Calls)
=============================================================================
