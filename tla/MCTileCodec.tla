------------------------------ MODULE MCTileCodec ------------------------------
(* Tiles of three rows of five pixels: one colour byte and one alpha byte each,
   the alpha 0 as in a frame that leaves it alone.  Solid tiles, tiles with equal
   rows, tiles that do not compress, and pairs that differ in a few pixels. *)
EXTENDS TileCodec
MCHash(a, b, c) == (a + 2 * b + c) % 3
Bitmap(s) == [i \in 0..29 |-> IF i % 2 = 1 THEN 0 ELSE s[i \div 2 + 1]]
MCTiles == {Bitmap(s) : s \in {<<0,0,0,0,0, 0,0,0,0,0, 0,0,0,0,0>>,
                               <<1,1,1,1,1, 1,1,1,1,1, 1,1,1,1,1>>,
                               <<0,1,0,1,0, 0,1,0,1,0, 1,1,0,0,0>>,
                               <<0,1,1,0,1, 1,1,0,1,0, 1,1,0,1,0>>,
                               <<1,0,0,0,1, 1,1,0,0,1, 0,0,1,0,1>>,
                               <<0,0,1,0,1, 0,0,1,1,0, 1,0,0,1,0>>}}
MCPrevs == {Bitmap(s) : s \in {<<1,1,1,1,1, 1,1,1,1,1, 1,1,1,1,1>>,
                               <<0,1,0,1,0, 0,1,0,1,0, 1,1,0,0,0>>,
                               <<1,0,0,0,0, 1,1,0,0,1, 0,0,1,0,1>>,
                               <<0,0,1,0,1, 0,0,1,1,1, 1,0,0,1,0>>}}
=============================================================================
