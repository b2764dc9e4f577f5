---------------------------- MODULE MCTextureImports ---------------------------
(***************************************************************************)
(* TextureImports with one slot, two flights, two rings of five textures   *)
(* each and enough pictures for a ring to wrap.                            *)
(***************************************************************************)
EXTENDS TextureImports
===============================================================================
